---- MODULE Spec2Model ----
(***************************************************************************)
(* Model of the Accountability client: the retry helper, the activity      *)
(* cache, and the activity log screen's normalisation, sorting, filtering  *)
(* and handlers (src/services/points-api.ts, src/app/(tabs)/logging.tsx).  *)
(***************************************************************************)
EXTENDS Integers, Sequences, FiniteSets, TLC

VARIABLES
    \* ---- withRetry(fn, maxRetries, delay) ----
    maxRetries,     \* argument: maximum attempt count
    delay,          \* argument: base delay (ms)
    failures,       \* environment: fn rejects on its first `failures` calls
    attempt,        \* loop variable of withRetry
    rpc,            \* position of the withRetry call
    lastError,      \* local variable lastError
    outcome,        \* settlement of the promise withRetry returned
    fnCalls,        \* number of invocations of fn so far
    timerDue,       \* due time of the pending setTimeout
    callAt,         \* history: time of every invocation of fn
    failAt,         \* history: time of every rejection of fn
    waits,          \* history: the timeouts passed to setTimeout
    doneAt,         \* history: time at which withRetry settled
    \* ---- AsyncStorage and the activity cache ----
    cacheStore,     \* AsyncStorage under CACHE_KEY: absent, or the stored text
    cacheEntry,     \* history: what the stored text was written from
    storageOps,     \* setItem / removeItem calls in flight
    readPc,         \* position of the getFromCache call
    readResult,     \* value getFromCache returned
    ticks,          \* number of clock steps taken (bounds the cache clock)
    \* ---- the activity log screen ----
    activities,     \* useState: the list shown
    searchQuery,    \* useState: the text query
    filters,        \* useState: the ActivityFilters object
    filteredActivities, \* useMemo over activities, searchQuery, filters
    fetchedData,    \* loadActivities: `data`, the list the fetch resolved with
    normalizedData, \* loadActivities: data.map(normalisation)
    passes,         \* number of times the normalisation map was applied
    isLoading,      \* useState: the loading overlay is shown
    error,          \* useState: the error message, or null
    page,           \* useState: the page last loaded
    hasMore,        \* useState: a further page may exist
    isFetchingMore, \* useState: a loadMoreActivities call is under way
    availableCategories, \* useState: the category options of the filter bar
    availableActivities, \* useState: the activity name options
    availableTags,  \* useState: the tag options
    showAddModal,   \* useState: the add form is open
    inFlight,       \* handler calls suspended at their await
    showEditModal,  \* useState: the edit form is open
    selectedActivity, \* useState: the activity being edited, or null
    lastAlert,      \* title of the last Alert.alert of a handler's outcome
    server,         \* the server's list of activities
    writes,         \* create, update and delete calls that have settled
    input,          \* the arguments and environment of a single call
    output,         \* what that call came to, once it has run
    timeoutId,      \* fetchWithTimeout: its setTimeout timer
    controller,     \* fetchWithTimeout: its AbortController
    request,        \* fetchWithTimeout: the fetch it awaits
    rendered,       \* the state the callbacks of the last render closed over
    now             \* Date.now() / the timer clock (ms)

retryVars == <<maxRetries, delay, failures, attempt, rpc, lastError, outcome,
               fnCalls, timerDue, callAt, failAt, waits, doneAt>>

cacheVars == <<cacheStore, cacheEntry, storageOps, readPc, readResult, ticks>>

listVars == <<activities, searchQuery, filters, filteredActivities>>

normVars == <<fetchedData, normalizedData, passes>>

screenVars == <<isLoading, error, page, hasMore, isFetchingMore,
                availableCategories, availableActivities, availableTags,
                showAddModal, inFlight>>

\* the edit form, the alerts, and the server behind the API
syncVars == <<showEditModal, selectedActivity, lastAlert, server, writes>>

\* one call of a function of the API or of a chart, taken by itself
timeoutVars == <<timeoutId, controller, request>>
callVars == <<input, output, timeoutVars, rendered>>

vars == <<retryVars, cacheVars, listVars, normVars, screenVars, syncVars,
          callVars, now>>

-----------------------------------------------------------------------------
(* Bounds *)
MaxRetries  == 4    \* largest maxRetries argument tried
MaxFailures == 4    \* largest number of leading failures of fn
MaxDelay    == 2    \* largest base delay tried (ms)
MaxClock    == 7    \* the retry clock stops ticking here
MaxTicks    == 2    \* clock steps in the cache model
MaxPending  == 2    \* storage calls in flight at once
MaxPasses   == 2    \* applications of the normalisation map

-----------------------------------------------------------------------------
(* JavaScript values *)
\* A string is a sequence of one-character strings; a scalar carries a tag;
\* an object is a function from its own keys; an array is a sequence.
Undefined == [t |-> "undefined"]
Null      == [t |-> "null"]
Str(s)    == [t |-> "str", s |-> s]
Num(n)    == [t |-> "num", n |-> n]
Arr(a)    == [t |-> "arr", a |-> a]
Obj(o)    == [t |-> "obj", o |-> o]
Bool(b)   == [t |-> "bool", b |-> b]
NaN       == [t |-> "nan"]
\* the error fn's i-th call throws, with its message where fn is known
ErrorOf(i) ==
    IF "errors" \in DOMAIN input
      THEN [t |-> "error", inv |-> i, message |-> input.errors[i]]
      ELSE [t |-> "error", inv |-> i]
ValueOf(i) == [t |-> "value", inv |-> i]    \* the value fn's i-th call returns

RECURSIVE Pow2(_)
Pow2(e) == IF e <= 0 THEN 1 ELSE 2 * Pow2(e - 1)

-----------------------------------------------------------------------------
(* JavaScript operators on these values *)

\* ToBoolean
Truthy(v) ==
    CASE v.t = "str"  -> v.s # <<>>
      [] v.t = "num"  -> v.n # 0
      [] v.t = "null" -> FALSE
      [] v.t = "undefined" -> FALSE
      [] v.t = "nan" -> FALSE
      [] v.t = "bool" -> v.b
      [] OTHER -> TRUE

\* a || b
Or(a, b) == IF Truthy(a) THEN a ELSE b

UpperCase == <<"A", "B", "C", "D", "E", "F", "G", "H", "I", "J", "K", "L", "M",
               "N", "O", "P", "Q", "R", "S", "T", "U", "V", "W", "X", "Y", "Z">>
LowerCase == <<"a", "b", "c", "d", "e", "f", "g", "h", "i", "j", "k", "l", "m",
               "n", "o", "p", "q", "r", "s", "t", "u", "v", "w", "x", "y", "z">>

LowerChar(c) ==
    IF \E i \in 1..26 : UpperCase[i] = c
      THEN LowerCase[CHOOSE i \in 1..26 : UpperCase[i] = c]
      ELSE c

\* String.prototype.toLowerCase
ToLowerCase(s) == [i \in 1..Len(s) |-> LowerChar(s[i])]

\* String.prototype.includes
StrIncludes(s, sub) ==
    \E i \in 0..(Len(s) - Len(sub)) : SubSeq(s, i + 1, i + Len(sub)) = sub

\* Array.prototype.includes
ArrIncludes(a, x) == \E i \in 1..Len(a) : a[i] = x

RECURSIVE SplitFrom(_, _, _)
\* s.split(sep) from position i on, cur being the piece collected so far
SplitFrom(s, sep, cur) ==
    IF s = <<>> THEN <<cur>>
    ELSE IF Head(s) = sep THEN <<cur>> \o SplitFrom(Tail(s), sep, <<>>)
    ELSE SplitFrom(Tail(s), sep, Append(cur, Head(s)))

\* String.prototype.split(',')
Split(s, sep) == SplitFrom(s, sep, <<>>)

RECURSIVE TrimStart(_), TrimEnd(_)
TrimStart(s) == IF s # <<>> /\ Head(s) = " " THEN TrimStart(Tail(s)) ELSE s
TrimEnd(s) ==
    IF s # <<>> /\ s[Len(s)] = " " THEN TrimEnd(SubSeq(s, 1, Len(s) - 1)) ELSE s

\* String.prototype.trim
Trim(s) == TrimEnd(TrimStart(s))

Digits == <<"0", "1", "2", "3", "4", "5", "6", "7", "8", "9">>
IsDigit(c) == \E i \in 1..10 : Digits[i] = c
DigitVal(c) == (CHOOSE i \in 1..10 : Digits[i] = c) - 1

RECURSIVE DecimalOf(_)
\* the number a run of digits denotes
DecimalOf(ds) ==
    IF ds = <<>> THEN 0
    ELSE 10 * DecimalOf(SubSeq(ds, 1, Len(ds) - 1)) + DigitVal(ds[Len(ds)])

\* Days from 1970-01-01 to the civil date y-m-d.
DaysFromCivil(y, m, d) ==
    LET yy  == IF m <= 2 THEN y - 1 ELSE y
        era == yy \div 400
        yoe == yy - era * 400
        mp  == IF m > 2 THEN m - 3 ELSE m + 9
        doy == (153 * mp + 2) \div 5 + d - 1
        doe == yoe * 365 + yoe \div 4 - yoe \div 100 + doy
    IN  era * 146097 + doe - 719468

\* A time value is the pair (day, ms): getTime() = day * 86400000 + ms.
Time(day, ms) == [day |-> day, ms |-> ms]
TimeLess(a, b) == a.day < b.day \/ (a.day = b.day /\ a.ms < b.ms)

\* new Date("yyyy-mm-dd"): midnight UTC of that day.
NewDate(s) ==
    Time(DaysFromCivil(DecimalOf(SubSeq(s, 1, 4)), DecimalOf(SubSeq(s, 6, 7)),
                       DecimalOf(SubSeq(s, 9, 10))), 0)

\* date.setHours(23, 59, 59, 999), the device's zone being UTC
SetHoursEndOfDay(t) == Time(t.day, 86399999)

\* Code units of the characters time strings are made of.
CharCode(c) == IF IsDigit(c) THEN 48 + DigitVal(c) ELSE 58

RECURSIVE StrCompare(_, _)
\* a.localeCompare(b) for strings of digits and ":": -1, 0 or 1
StrCompare(a, b) ==
    IF a = <<>> /\ b = <<>> THEN 0
    ELSE IF a = <<>> THEN 0 - 1
    ELSE IF b = <<>> THEN 1
    ELSE IF Head(a) = Head(b) THEN StrCompare(Tail(a), Tail(b))
    ELSE IF CharCode(Head(a)) < CharCode(Head(b)) THEN 0 - 1 ELSE 1

-----------------------------------------------------------------------------
(* withRetry, src/services/points-api.ts:1698-1716 *)

\* delay * Math.pow(2, attempt - 1)
BackoffLinear(d, a) == d * a
Backoff(d, a) == d * Pow2(a - 1)

\* the loop test `attempt <= maxRetries`
LoopTestStrict(a, n) == a < n
LoopTest(a, n) == a <= n

\* the guard of the wait, `attempt < maxRetries`
ShouldWaitAlways(a, n) == TRUE
ShouldWait(a, n) == a < n

\* `lastError = error`
CaughtErrorKeepFirst(prev, err) == IF prev = Undefined THEN err ELSE prev
CaughtError(prev, err) == err

RetryIdle ==
    /\ attempt = 0 /\ rpc = "idle" /\ lastError = Undefined
    /\ outcome = [kind |-> "pending"] /\ fnCalls = 0 /\ timerDue = 0
    /\ callAt = <<>> /\ failAt = <<>> /\ waits = <<>> /\ doneAt = 0

\* The call: attempt = 1; the loop test; the first fn() or `throw lastError`.
WithRetryCall ==
    /\ rpc = "idle"
    /\ attempt' = 1
    /\ IF LoopTest(1, maxRetries)
         THEN /\ rpc' = "awaitFn"
              /\ fnCalls' = fnCalls + 1
              /\ callAt' = Append(callAt, now)
              /\ UNCHANGED <<outcome, doneAt>>
         ELSE /\ rpc' = "rejected"
              /\ outcome' = [kind |-> "rejected", value |-> lastError]
              /\ doneAt' = now
              /\ UNCHANGED <<fnCalls, callAt>>
    /\ UNCHANGED <<maxRetries, delay, failures, lastError, timerDue, failAt,
                   waits, now, cacheVars, listVars, normVars, callVars, syncVars, screenVars>>

\* `return await fn()` when fn resolves.
FnResolves ==
    /\ rpc = "awaitFn"
    /\ fnCalls > failures
    /\ rpc' = "resolved"
    /\ outcome' = [kind |-> "resolved", value |-> ValueOf(fnCalls)]
    /\ doneAt' = now
    /\ UNCHANGED <<maxRetries, delay, failures, attempt, lastError, fnCalls,
                   timerDue, callAt, failAt, waits, now, cacheVars, listVars, normVars, callVars, syncVars, screenVars>>

\* The catch block: remember the error, then either arm the backoff timer
\* or go round the loop at once (attempt++, loop test, fn() or throw).
FnRejects ==
    /\ rpc = "awaitFn"
    /\ fnCalls <= failures
    /\ lastError' = CaughtError(lastError, ErrorOf(fnCalls))
    /\ failAt' = Append(failAt, now)
    /\ IF ShouldWait(attempt, maxRetries)
         THEN /\ rpc' = "awaitTimer"
              /\ timerDue' = now + Backoff(delay, attempt)
              /\ waits' = Append(waits, Backoff(delay, attempt))
              /\ UNCHANGED <<attempt, outcome, doneAt, fnCalls, callAt>>
         ELSE /\ attempt' = attempt + 1
              /\ UNCHANGED <<timerDue, waits>>
              /\ IF LoopTest(attempt + 1, maxRetries)
                   THEN /\ rpc' = "awaitFn"
                        /\ fnCalls' = fnCalls + 1
                        /\ callAt' = Append(callAt, now)
                        /\ UNCHANGED <<outcome, doneAt>>
                   ELSE /\ rpc' = "rejected"
                        /\ outcome' = [kind |-> "rejected", value |-> lastError']
                        /\ doneAt' = now
                        /\ UNCHANGED <<fnCalls, callAt>>
    /\ UNCHANGED <<maxRetries, delay, failures, now, cacheVars, listVars, normVars, callVars, syncVars, screenVars>>

\* The timer fires: attempt++, the loop test, then fn() again or the throw.
BackoffElapsed ==
    /\ rpc = "awaitTimer"
    /\ now >= timerDue
    /\ attempt' = attempt + 1
    /\ IF LoopTest(attempt + 1, maxRetries)
         THEN /\ rpc' = "awaitFn"
              /\ fnCalls' = fnCalls + 1
              /\ callAt' = Append(callAt, now)
              /\ UNCHANGED <<outcome, doneAt>>
         ELSE /\ rpc' = "rejected"
              /\ outcome' = [kind |-> "rejected", value |-> lastError]
              /\ doneAt' = now
              /\ UNCHANGED <<fnCalls, callAt>>
    /\ UNCHANGED <<maxRetries, delay, failures, lastError, timerDue,
                   failAt, waits, now, cacheVars, listVars, normVars, callVars, syncVars, screenVars>>

\* Time passes while fn or the timer is pending.
RetryTick ==
    /\ rpc \in {"awaitFn", "awaitTimer"}
    /\ now < MaxClock
    /\ now' = now + 1
    /\ UNCHANGED <<retryVars, cacheVars, listVars, normVars, callVars, syncVars, screenVars>>

-----------------------------------------------------------------------------
(* JSON text, as the sequence of its tokens *)

PTok(c)   == [p |-> c]          \* one of { } [ ] , :
KeyTok(k) == [key |-> k]        \* a member name
StrTok(s) == [str |-> s]
NumTok(n) == [num |-> n]
NullTok   == [lit |-> "null"]
BoolTok(b) == [lit |-> IF b THEN "true" ELSE "false"]

\* Member names in the order JSON.stringify emits them.
KeyOrder == <<"timestamp", "data", "Activity", "Category", "Date",
              "Start_Time", "End_Time", "Notes", "Points", "Tags",
              "activity_id", "activity", "category", "date", "start_time",
              "end_time", "notes", "points", "tags",
              "message", "status", "activities", "total_points", "totals",
              "activity_summary", "mood_summary", "journal_summary",
              "time_periods", "categories", "points_distribution",
              "current_streak", "hour_distribution", "daily_activity",
              "mood_distribution", "sleep_mood_correlation", "mood_trend",
              "entries_by_date", "streaks", "tag_frequency",
              "journal_mood_correlation", "total_activities", "total_hours",
              "total_days", "total_categories", "points_per_hour",
              "avg_mood", "avg_energy", "avg_stress", "avg_sleep",
              "total_entries", "min_mood", "max_mood", "unique_days",
              "avg_length", "top_categories", "top_tags",
              "success", "remaining_points", "points_remaining",
              "transaction_id">>

RECURSIVE FlatJoin(_)
\* concatenation of token sequences with "," between them
FlatJoin(parts) ==
    IF parts = <<>> THEN <<>>
    ELSE IF Len(parts) = 1 THEN parts[1]
    ELSE parts[1] \o <<PTok(",")>> \o FlatJoin(Tail(parts))

\* JSON.stringify leaves out a member whose value is undefined.
EmittedDropNull(v) == v # Undefined /\ v # Null
Emitted(v) == v # Undefined

RECURSIVE Stringify(_)
\* JSON.stringify(v)
Stringify(v) ==
    CASE v.t = "str"  -> <<StrTok(v.s)>>
      [] v.t = "num"  -> <<NumTok(v.n)>>
      [] v.t = "null" -> <<NullTok>>
      [] v.t = "undefined" -> <<NullTok>>      \* inside an array
      [] v.t = "bool" -> <<BoolTok(v.b)>>
      [] v.t = "arr"  ->
            <<PTok("[")>>
            \o FlatJoin([i \in 1..Len(v.a) |-> Stringify(v.a[i])])
            \o <<PTok("]")>>
      [] v.t = "obj"  ->
            LET keys == SelectSeq(KeyOrder,
                           LAMBDA k : k \in DOMAIN v.o /\ Emitted(v.o[k]))
            IN  <<PTok("{")>>
                \o FlatJoin([i \in 1..Len(keys) |->
                       <<KeyTok(keys[i]), PTok(":")>> \o Stringify(v.o[keys[i]])])
                \o <<PTok("}")>>

ParseFail == [ok |-> FALSE]
IsP(ts, i, c) == i <= Len(ts) /\ ts[i] = PTok(c)

RECURSIVE ParseValue(_, _), ParseElems(_, _, _), ParseMembers(_, _, _)
\* one JSON value starting at token i
ParseValue(ts, i) ==
    IF i > Len(ts) THEN ParseFail
    ELSE LET tk == ts[i] IN
      IF "str" \in DOMAIN tk THEN [ok |-> TRUE, v |-> Str(tk.str), next |-> i + 1]
      ELSE IF "num" \in DOMAIN tk THEN [ok |-> TRUE, v |-> Num(tk.num), next |-> i + 1]
      ELSE IF "lit" \in DOMAIN tk
             THEN [ok |-> TRUE, next |-> i + 1,
                   v |-> IF tk = NullTok THEN Null ELSE Bool(tk = BoolTok(TRUE))]
      ELSE IF IsP(ts, i, "[") THEN
             IF IsP(ts, i + 1, "]")
               THEN [ok |-> TRUE, v |-> Arr(<<>>), next |-> i + 2]
               ELSE ParseElems(ts, i + 1, <<>>)
      ELSE IF IsP(ts, i, "{") THEN
             IF IsP(ts, i + 1, "}")
               THEN [ok |-> TRUE, v |-> Obj(<<>>), next |-> i + 2]
               ELSE ParseMembers(ts, i + 1, <<>>)
      ELSE ParseFail

\* the elements of an array, after "[" or ","
ParseElems(ts, i, acc) ==
    LET r == ParseValue(ts, i) IN
    IF ~r.ok THEN ParseFail
    ELSE IF IsP(ts, r.next, ",") THEN ParseElems(ts, r.next + 1, Append(acc, r.v))
    ELSE IF IsP(ts, r.next, "]")
           THEN [ok |-> TRUE, v |-> Arr(Append(acc, r.v)), next |-> r.next + 1]
    ELSE ParseFail

\* the members of an object, after "{" or ","
ParseMembers(ts, i, acc) ==
    IF ~(i + 1 <= Len(ts) /\ "key" \in DOMAIN ts[i] /\ IsP(ts, i + 1, ":"))
      THEN ParseFail
    ELSE LET r == ParseValue(ts, i + 2) IN
      IF ~r.ok THEN ParseFail
      ELSE LET acc2 == (ts[i].key :> r.v) @@ acc IN
        IF IsP(ts, r.next, ",") THEN ParseMembers(ts, r.next + 1, acc2)
        ELSE IF IsP(ts, r.next, "}")
               THEN [ok |-> TRUE, v |-> Obj(acc2), next |-> r.next + 1]
        ELSE ParseFail

\* JSON.parse(text): the whole text must be one value
JsonParse(ts) ==
    LET r == ParseValue(ts, 1) IN
    IF r.ok /\ r.next = Len(ts) + 1 THEN [ok |-> TRUE, v |-> r.v] ELSE ParseFail

\* v[k] for a value that is not null or undefined
Prop(v, k) == IF v.t = "obj" /\ k \in DOMAIN v.o THEN v.o[k] ELSE Undefined

-----------------------------------------------------------------------------
(* The activity cache, src/services/points-api.ts:1306-1346 *)

CACHE_EXPIRY == 2 * 60 * 1000

\* `now - parsed.timestamp < (CACHE_EXPIRY / 2)`; a timestamp that is not a
\* number makes the difference NaN and the comparison false.
FreshInclusive(t, ts) == ts.t = "num" /\ t - ts.n <= CACHE_EXPIRY \div 2
Fresh(t, ts) == ts.t = "num" /\ t - ts.n < CACHE_EXPIRY \div 2

\* (a text without the time of the write)
CacheTextUnstamped(t, data) ==
    Stringify(Obj([timestamp |-> Num(0), data |-> data]))
\* The text saveToCache stores for `data` at time t.
CacheText(t, data) ==
    Stringify(Obj([timestamp |-> Num(t), data |-> data]))

\* getFromCache once getItem has returned `item` at time t.
GetFromCache(item, t) ==
    IF ~item.present \/ item.text = <<>> THEN Null          \* !cachedData
    ELSE LET r == JsonParse(item.text) IN
      IF ~r.ok THEN Null                                    \* JSON.parse throws
      ELSE IF r.v.t = "null" THEN Null                      \* TypeError, caught
      ELSE IF Fresh(t, Prop(r.v, "timestamp"))
             THEN Prop(r.v, "data")
             ELSE Null

Absent == [present |-> FALSE]
Stored(text) == [present |-> TRUE, text |-> text]

\* Activity records as the server's JSON carries them.
RunRecord ==
    Obj([Activity |-> Str(<<"R", "u", "n">>), Points |-> Num(5),
         Notes |-> Null, activity_id |-> Num(1)])
ReadRecord ==
    Obj([activity |-> Str(<<"r", "e", "a", "d">>), points |-> Num(0),
         tags |-> Str(<<>>), activity_id |-> Num(2)])

CacheLists ==
    { Arr(<<>>), Arr(<<RunRecord>>), Arr(<<RunRecord, ReadRecord>>),
      Arr(<<ReadRecord, RunRecord>>) }

\* What a previous run of the app can have left under CACHE_KEY: nothing, an
\* entry (fresh or expired), or a text cut short.
PersistedStates ==
    {[store |-> Absent, entry |-> [kind |-> "none"]]}
    \cup {[store |-> Stored(CacheText(t, Arr(<<ReadRecord>>))),
           entry |-> [kind |-> "entry", ts |-> t, data |-> Arr(<<ReadRecord>>)]]
          : t \in {0 - 1, 0 - (CACHE_EXPIRY \div 2)}}
    \cup {[store |-> Stored(SubSeq(CacheText(0, Arr(<<RunRecord>>)), 1, 9)),
           entry |-> [kind |-> "garbage"]]}

CacheIdle ==
    /\ cacheStore = Absent /\ cacheEntry = [kind |-> "none"]
    /\ storageOps = <<>> /\ readPc = "idle" /\ readResult = Undefined
    /\ ticks = 0

\* saveToCache(data): stringify with Date.now() and issue setItem.
SaveToCache(data) ==
    /\ Len(storageOps) < MaxPending
    /\ storageOps' = Append(storageOps,
                        [op |-> "setItem", text |-> CacheText(now, data),
                         ts |-> now, data |-> data])
    /\ UNCHANGED <<cacheStore, cacheEntry, readPc, readResult, ticks, now,
                   retryVars, listVars, normVars, callVars, syncVars, screenVars>>

\* AsyncStorage.removeItem(CACHE_KEY), as createActivity issues it.
RemoveItem ==
    /\ Len(storageOps) < MaxPending
    /\ storageOps' = Append(storageOps, [op |-> "removeItem"])
    /\ UNCHANGED <<cacheStore, cacheEntry, readPc, readResult, ticks, now,
                   retryVars, listVars, normVars, callVars, syncVars, screenVars>>

RemoveAt(q, i) == SubSeq(q, 1, i - 1) \o SubSeq(q, i + 1, Len(q))

\* A storage call completes and takes effect.
StorageOpDone ==
    \E i \in 1..Len(storageOps) :
      /\ storageOps' = RemoveAt(storageOps, i)
      /\ IF storageOps[i].op = "setItem"
           THEN /\ cacheStore' = Stored(storageOps[i].text)
                /\ cacheEntry' = [kind |-> "entry", ts |-> storageOps[i].ts,
                                  data |-> storageOps[i].data]
           ELSE /\ cacheStore' = Absent
                /\ cacheEntry' = [kind |-> "none"]
      /\ UNCHANGED <<readPc, readResult, ticks, now, retryVars, listVars, normVars, callVars, syncVars, screenVars>>

\* A storage call throws; saveToCache and createActivity catch and log.
StorageOpFails ==
    \E i \in 1..Len(storageOps) :
      /\ storageOps' = RemoveAt(storageOps, i)
      /\ UNCHANGED <<cacheStore, cacheEntry, readPc, readResult, ticks, now,
                     retryVars, listVars, normVars, callVars, syncVars, screenVars>>

\* getFromCache(): issue getItem.
GetFromCacheCall ==
    /\ readPc \in {"idle", "done"}
    /\ readPc' = "reading"
    /\ readResult' = Undefined
    /\ UNCHANGED <<cacheStore, cacheEntry, storageOps, ticks, now, retryVars, listVars, normVars, callVars, syncVars, screenVars>>

\* getItem returns; the rest of getFromCache runs.
GetFromCacheReturns ==
    /\ readPc = "reading"
    /\ readPc' = "done"
    /\ readResult' = GetFromCache(cacheStore, now)
    /\ UNCHANGED <<cacheStore, cacheEntry, storageOps, ticks, now, retryVars, listVars, normVars, callVars, syncVars, screenVars>>

\* getItem throws; getFromCache catches and returns null.
GetItemFails ==
    /\ readPc = "reading"
    /\ readPc' = "done"
    /\ readResult' = Null
    /\ UNCHANGED <<cacheStore, cacheEntry, storageOps, ticks, now, retryVars, listVars, normVars, callVars, syncVars, screenVars>>

TickSteps == {1, CACHE_EXPIRY \div 2 - 1, CACHE_EXPIRY \div 2}

CacheTick ==
    /\ ticks < MaxTicks
    /\ ticks' = ticks + 1
    /\ \E d \in TickSteps : now' = now + d
    /\ UNCHANGED <<cacheStore, cacheEntry, storageOps, readPc, readResult,
                   retryVars, listVars, normVars, callVars, syncVars, screenVars>>

-----------------------------------------------------------------------------
(* The activity log screen: normalisation, sorting, filtering,             *)
(* src/app/(tabs)/logging.tsx                                               *)

itemsPerPage == 10

\* (the object literal without its `...item`)
NormalizeWithoutSpread(item) ==
    LET merged(up, low) == Or(Prop(item, up), Prop(item, low))
    IN  Obj([Activity   |-> merged("Activity", "activity"),
             Category   |-> merged("Category", "category"),
             Date       |-> merged("Date", "date"),
             Start_Time |-> merged("Start_Time", "start_time"),
             End_Time   |-> merged("End_Time", "end_time"),
             Notes      |-> merged("Notes", "notes"),
             Points     |-> merged("Points", "points"),
             Tags       |-> merged("Tags", "tags"),
             activity_id |-> Prop(item, "activity_id")])

\* The object literal of the normalisation map: the eight merged fields and
\* activity_id, then `...item` on top.
Normalize(item) ==
    LET merged(up, low) == Or(Prop(item, up), Prop(item, low))
        base == [Activity   |-> merged("Activity", "activity"),
                 Category   |-> merged("Category", "category"),
                 Date       |-> merged("Date", "date"),
                 Start_Time |-> merged("Start_Time", "start_time"),
                 End_Time   |-> merged("End_Time", "end_time"),
                 Notes      |-> merged("Notes", "notes"),
                 Points     |-> merged("Points", "points"),
                 Tags       |-> merged("Tags", "tags"),
                 activity_id |-> Prop(item, "activity_id")]
    IN  Obj(item.o @@ base)

\* data.map(item => ({...}))
NormalizeAll(data) == [i \in 1..Len(data) |-> Normalize(data[i])]

RECURSIVE NumToString(_)
\* String(n) for a natural number
NumToString(n) ==
    IF n < 10 THEN <<Digits[n + 1]>>
    ELSE Append(NumToString(n \div 10), Digits[(n % 10) + 1])

\* a?.Date ? new Date(a.Date).getTime() : 0
SortDate(a) ==
    IF Truthy(Prop(a, "Date")) THEN NewDate(Prop(a, "Date").s) ELSE Time(0, 0)

\* a?.Start_Time ? (string, or String(number)) : ''
SortTime(a) ==
    LET st == Prop(a, "Start_Time") IN
    IF ~Truthy(st) THEN <<>>
    ELSE IF st.t = "str" THEN st.s ELSE NumToString(st.n)

\* What the comparator reads of an element: dateA (dateB) and timeA (timeB).
SortKey(a) == [date |-> SortDate(a), time |-> SortTime(a)]

\* The comparator of sortActivities: its sign.
Compare(ka, kb) ==
    IF TimeLess(ka.date, kb.date) THEN 1          \* dateB - dateA > 0
    ELSE IF TimeLess(kb.date, ka.date) THEN 0 - 1
    ELSE StrCompare(ka.time, kb.time)

RECURSIVE SortKeys(_)
SortKeys(data) ==
    IF data = <<>> THEN <<>> ELSE <<SortKey(Head(data))>> \o SortKeys(Tail(data))

\* The index n placed after every index whose element does not sort after
\* the n-th (stable).
InsertSorted(order, keys, n) ==
    LET later == {i \in 1..Len(order) : Compare(keys[order[i]], keys[n]) > 0}
        pos   == IF later = {} THEN Len(order) + 1
                 ELSE CHOOSE i \in later : \A j \in later : i <= j
    IN  SubSeq(order, 1, pos - 1) \o <<n>> \o SubSeq(order, pos, Len(order))

RECURSIVE SortPrefix(_, _)
\* the sorted order of the first n elements, as their indices
SortPrefix(keys, n) ==
    IF n = 0 THEN <<>> ELSE InsertSorted(SortPrefix(keys, n - 1), keys, n)

RECURSIVE Pick(_, _)
Pick(data, order) ==
    IF order = <<>> THEN <<>> ELSE <<data[Head(order)]>> \o Pick(data, Tail(order))

\* sortActivities(data): [...data].sort(comparator)
sortActivities(data) == Pick(data, SortPrefix(SortKeys(data), Len(data)))

\* filters.<k> when the key is set, for the three multi-select dimensions
Selected(F, k) == IF k \in DOMAIN F THEN F[k] ELSE <<>>

\* filters.dateRange?.<k>, "" standing for a missing bound
RangeBound(F, k) ==
    IF "dateRange" \in DOMAIN F /\ k \in DOMAIN F["dateRange"]
      THEN F["dateRange"][k] ELSE <<>>

\* filters.minPoints, 0 standing for a missing one
MinPointsOf(F) == IF "minPoints" \in DOMAIN F THEN F["minPoints"] ELSE 0

\* The text search of the filter callback.
MatchesQuery(activity, q) ==
    LET name  == Or(Prop(activity, "Activity"), Prop(activity, "activity"))
        cat   == Or(Prop(activity, "Category"), Prop(activity, "category"))
        tags  == Or(Or(Prop(activity, "Tags"), Prop(activity, "tags")), Str(<<>>))
        notes == Or(Or(Prop(activity, "Notes"), Prop(activity, "notes")), Str(<<>>))
        low   == ToLowerCase(q)
    IN  \/ StrIncludes(ToLowerCase(name.s), low)
        \/ StrIncludes(ToLowerCase(cat.s), low)
        \/ StrIncludes(ToLowerCase(tags.s), low)
        \/ StrIncludes(ToLowerCase(notes.s), low)

\* The date range test of the filter callback: TRUE when the activity is
\* rejected.  The end date is looked at only inside the start date branch.
RejectedByDate(activity, F) ==
    LET dateValue == Or(Prop(activity, "Date"), Prop(activity, "date"))
        start == RangeBound(F, "startDate")
        end   == RangeBound(F, "endDate")
    IN  /\ start # <<>>
        /\ \/ ~Truthy(dateValue)
           \/ TimeLess(NewDate(dateValue.s), NewDate(start))
           \/ /\ end # <<>>
              /\ TimeLess(SetHoursEndOfDay(NewDate(end)), NewDate(dateValue.s))

\* (the tags test without its `filters.tags.length > 0` guard)
RejectedByTagsUnguarded(activity, F) ==
    LET tags == Or(Or(Prop(activity, "Tags"), Prop(activity, "tags")), Str(<<>>))
        wanted == Selected(F, "tags")
    IN  \/ tags.s = <<>>
        \/ LET parts == Split(tags.s, ",")
               activityTags == [i \in 1..Len(parts) |-> Trim(parts[i])]
           IN  ~\E i \in 1..Len(wanted) : ArrIncludes(activityTags, wanted[i])

\* The tags test of the filter callback: TRUE when the activity is rejected.
RejectedByTags(activity, F) ==
    LET tags == Or(Or(Prop(activity, "Tags"), Prop(activity, "tags")), Str(<<>>))
        wanted == Selected(F, "tags")
    IN  /\ Len(wanted) > 0
        /\ \/ tags.s = <<>>
           \/ LET parts == Split(tags.s, ",")
                  activityTags == [i \in 1..Len(parts) |-> Trim(parts[i])]
              IN  ~\E i \in 1..Len(wanted) : ArrIncludes(activityTags, wanted[i])

\* The callback of activities.filter(...)
Keeps(activity, q, F) ==
    LET name   == Or(Prop(activity, "Activity"), Prop(activity, "activity"))
        cat    == Or(Prop(activity, "Category"), Prop(activity, "category"))
        points == Or(Or(Prop(activity, "Points"), Prop(activity, "points")), Num(0))
    IN  /\ Truthy(name) /\ Truthy(cat)
        /\ q # <<>> => MatchesQuery(activity, q)
        /\ Len(Selected(F, "categories")) > 0 =>
              ArrIncludes(Selected(F, "categories"), cat.s)
        /\ Len(Selected(F, "activities")) > 0 =>
              ArrIncludes(Selected(F, "activities"), name.s)
        /\ ~RejectedByDate(activity, F)
        /\ ~(MinPointsOf(F) # 0 /\ points.n < MinPointsOf(F))
        /\ ~RejectedByTags(activity, F)

\* filteredActivities
Filter(list, q, F) == SelectSeq(list, LAMBDA activity : Keeps(activity, q, F))

\* ---- inputs ----
S(str) == Str(str)
Run   == <<"R", "u", "n">>
Read  == <<"R", "e", "a", "d">>
Swim  == <<"S", "w", "i", "m">>
Nap   == <<"N", "a", "p">>
Fit   == <<"F", "i", "t">>
Mind  == <<"M", "i", "n", "d">>
Gym   == <<"g", "y", "m">>
AmGym == <<"a", "m", ",", " ", "g", "y", "m">>
Mar01 == <<"2", "0", "2", "4", "-", "0", "3", "-", "0", "1">>
Mar02 == <<"2", "0", "2", "4", "-", "0", "3", "-", "0", "2">>
Mar05 == <<"2", "0", "2", "4", "-", "0", "3", "-", "0", "5">>
T0730 == <<"0", "7", ":", "3", "0">>
T0800 == <<"0", "8", ":", "0", "0">>
T0900 == <<"0", "9", ":", "0", "0">>
T1300 == <<"1", "3", ":", "0", "0">>

\* Server records: upper-case names, lower-case names, and one without a
\* category.
RunRec ==
    Obj([Activity |-> S(Run), Category |-> S(Fit), Date |-> S(Mar02),
         Start_Time |-> S(T0900), Notes |-> S(<<>>), Points |-> Num(10),
         Tags |-> S(AmGym), activity_id |-> Num(1)])
ReadRec ==
    Obj([Activity |-> S(Read), Category |-> S(Mind), Date |-> S(Mar02),
         Start_Time |-> S(T0730), Notes |-> S(Fit), Points |-> Num(5),
         Tags |-> S(<<>>), activity_id |-> Num(2)])
SwimRec ==
    Obj([activity |-> S(Swim), category |-> S(Fit), date |-> S(Mar05),
         start_time |-> S(T0800), points |-> Num(20), tags |-> S(Gym),
         activity_id |-> Num(3)])
NapRec ==
    Obj([Activity |-> S(Nap), Category |-> S(<<>>), Date |-> S(Mar01),
         Start_Time |-> S(T1300), Points |-> Num(0), activity_id |-> Num(4)])

RecordPool == {RunRec, ReadRec, SwimRec, NapRec}

\* every list of at most n records, no record twice
ListsUpTo(n) ==
    UNION {{l \in [1..k -> RecordPool] : \A i, j \in 1..k : l[i] = l[j] => i = j} :
              k \in 0..n}

Queries == {<<>>, <<"r", "U">>}

\* An optional member of an object literal.
Unset     == [set |-> FALSE]
SetTo(v)  == [set |-> TRUE, v |-> v]
Member(k, c) == IF c.set THEN (k :> c.v) ELSE <<>>

DateRanges ==
    { Member("startDate", SetTo(Mar05)),
      Member("endDate", SetTo(Mar02)),
      Member("startDate", SetTo(Mar02)) @@ Member("endDate", SetTo(Mar02)) }

\* The values of the ActivityFilters interface tried.
FilterSets ==
    {Member("categories", c) @@ Member("activities", a) @@ Member("tags", t)
        @@ Member("dateRange", d) @@ Member("minPoints", m) :
        c \in {Unset, SetTo(<<>>), SetTo(<<Mind, Fit>>)},
        a \in {Unset, SetTo(<<Run>>)},
        t \in {Unset, SetTo(<<Gym>>)},
        d \in {Unset} \cup {SetTo(r) : r \in DateRanges},
        m \in {Unset, SetTo(10)}}

NoFilters == <<>>

ListIdle ==
    /\ activities = <<>> /\ searchQuery = <<>> /\ filters = NoFilters
    /\ filteredActivities = <<>>

\* onChangeText={setSearchQuery}, and the re-render's useMemo
SetSearchQuery(q) ==
    /\ searchQuery' = q
    /\ filteredActivities' = Filter(activities, q, filters)
    /\ UNCHANGED <<activities, filters, retryVars, cacheVars, normVars, callVars, syncVars, screenVars, now>>

\* onApplyFilters={setFilters}, and the re-render's useMemo
SetFilters(F) ==
    /\ filters' = F
    /\ filteredActivities' = Filter(activities, searchQuery, F)
    /\ UNCHANGED <<activities, searchQuery, retryVars, cacheVars, normVars, callVars, syncVars, screenVars, now>>

\* handleClearAll, and the re-render's useMemo
handleClearAll ==
    /\ searchQuery' = <<>>
    /\ filters' = NoFilters
    /\ filteredActivities' = Filter(activities, <<>>, NoFilters)
    /\ UNCHANGED <<activities, retryVars, cacheVars, normVars, callVars, syncVars, screenVars, now>>

\* Server records over both casings of two fields: each name missing, empty
\* (or zero) or filled.
CasingRecords ==
    {Obj(Member("Activity", A) @@ Member("activity", a)
         @@ Member("Points", P) @@ Member("points", q)
         @@ Member("activity_id", i)) :
        A \in {Unset, SetTo(S(<<>>)), SetTo(S(Run))},
        a \in {Unset, SetTo(S(<<>>)), SetTo(S(Swim))},
        P \in {Unset, SetTo(Num(0)), SetTo(Num(10))},
        q \in {Unset, SetTo(Num(0)), SetTo(Num(5)), SetTo(Null)},
        i \in {Unset, SetTo(Num(7))}}

NormIdle == fetchedData = <<>> /\ normalizedData = <<>> /\ passes = 0

\* the first render, from the initial values of useState: useState(1),
\* useState(true), useState(false), and no list on screen for useState([])
RenderIdle ==
    rendered = [page |-> 1, hasMore |-> TRUE, isFetchingMore |-> FALSE,
                listShown |-> FALSE]

TimeoutIdle ==
    /\ timeoutId = [state |-> "none", due |-> 0]
    /\ controller = Null
    /\ request = "none"

CallIdle == input = Null /\ output = Null /\ TimeoutIdle /\ RenderIdle

\* data.map(normalisation), applied to the fetched list and then to its own
\* result.
NormalizePass ==
    /\ passes < MaxPasses
    /\ passes' = passes + 1
    /\ normalizedData' = NormalizeAll(IF passes = 0 THEN fetchedData ELSE normalizedData)
    /\ UNCHANGED <<fetchedData, retryVars, cacheVars, listVars, screenVars, syncVars, callVars, now>>

-----------------------------------------------------------------------------
(* The activity log screen: its handlers, src/app/(tabs)/logging.tsx        *)

MaxInFlight == 2    \* handler calls suspended at once
MaxPage     == 2    \* loadMoreActivities is not started beyond this page
MaxNewId    == 16   \* largest activity_id the add form is submitted with
MaxWrites   == 1    \* create, update and delete calls the server is sent

RECURSIVE UniquePrefix(_, _)
\* [...new Set(list)]: the first occurrence of every value, in order
UniquePrefix(list, n) ==
    IF n = 0 THEN <<>>
    ELSE LET u == UniquePrefix(list, n - 1)
         IN  IF ArrIncludes(u, list[n]) THEN u ELSE Append(u, list[n])

UniqueOf(list) == UniquePrefix(list, Len(list))

RECURSIVE Flat(_)
\* array.flat()
Flat(lists) == IF lists = <<>> THEN <<>> ELSE Head(lists) \o Flat(Tail(lists))

\* data.map(item => item.<Upper> || item.<lower>).filter(Boolean), made unique
UniqueField(data, upper, lower) ==
    LET values == [i \in 1..Len(data) |->
                      Or(Prop(data[i], upper), Prop(data[i], lower))]
        truthy == SelectSeq(values, Truthy)
    IN  UniqueOf([i \in 1..Len(truthy) |-> truthy[i].s])

\* the tags of extractCategoriesAndTags: split, trimmed, non-empty, unique
UniqueTags(data) ==
    LET tagsOf(item) ==
            LET tags == Or(Prop(item, "Tags"), Prop(item, "tags")) IN
            IF Truthy(tags)
              THEN LET parts == Split(tags.s, ",")
                       trimmed == [i \in 1..Len(parts) |-> Trim(parts[i])]
                   IN  SelectSeq(trimmed, LAMBDA tag : tag # <<>>)
              ELSE <<>>
    IN  UniqueOf(Flat([i \in 1..Len(data) |-> tagsOf(data[i])]))

\* One page of server records, all of one date and start time.
PageRec(i) ==
    Obj([Activity |-> S(Run), Category |-> S(Fit), Date |-> S(Mar02),
         Start_Time |-> S(T0900), Notes |-> S(<<>>), Points |-> Num(10),
         Tags |-> S(<<>>), activity_id |-> Num(4 + i)])
FullPage == [i \in 1..itemsPerPage |-> PageRec(i)]

\* What fetchActivities resolves with: nothing, a short list in either
\* casing, or a full page.
FetchResults == {<<>>, <<SwimRec>>, <<ReadRec, NapRec>>, FullPage}

\* What the add form submits (ActivityForm.handleSubmit).
NapForm ==
    Obj([Activity |-> S(Nap), Category |-> S(Mind), Date |-> S(Mar05),
         Start_Time |-> S(T0730), End_Time |-> S(T0800), Notes |-> S(<<>>),
         Tags |-> S(<<>>), Points |-> Num(10)])
FormActivities == {NapForm}

Added == <<"A", "d", "d", "e", "d">>     \* the fallback's message, shortened
Success == <<"s", "u", "c", "c", "e", "s", "s">>

\* createActivity's fallback: { ...activity, status, message }
FallbackActivity(activity) ==
    Obj([status |-> S(Success), message |-> S(Added)] @@ activity.o)

\* data.activity of the server's response: missing, or a record
ServedActivities == {Undefined, SwimRec}

\* What createActivity resolves with: data.activity, or the fallback.
CreateResult(activity, served) ==
    IF Truthy(served) THEN served ELSE FallbackActivity(activity)

\* activities.reduce((max, act) => act.activity_id && act.activity_id > max ? ...)
MaxId(list) ==
    LET ids == {Prop(list[i], "activity_id").n :
                   i \in {j \in 1..Len(list) : Truthy(Prop(list[j], "activity_id"))}}
    IN  IF ids = {} THEN 0 ELSE CHOOSE m \in ids : \A n \in ids : n <= m

\* { ...formattedActivity, activity_id: maxId + 1 }
NewActivity(form, list) ==
    Obj(("activity_id" :> Num(MaxId(list) + 1)) @@ form.o)

\* addedActivity of handleAddActivity
AddedActivity(result, newActivity) ==
    IF Truthy(Prop(result, "activity_id")) THEN result
    ELSE IF Truthy(Prop(result, "activity")) THEN Prop(result, "activity")
    ELSE Obj(result.o @@ newActivity.o)

\* the updater handleAddActivity passes to setActivities
WithAdded(prev, added) ==
    LET same(a) == Prop(a, "activity_id") = Prop(added, "activity_id") IN
    IF \E i \in 1..Len(prev) : same(prev[i])
      THEN sortActivities([i \in 1..Len(prev) |->
                              IF same(prev[i]) THEN added ELSE prev[i]])
      ELSE sortActivities(<<added>> \o prev)

\* the updater loadMoreActivities passes to setActivities
WithMore(prev, newItems) ==
    LET existingIds == {Prop(prev[i], "activity_id") : i \in 1..Len(prev)}
        uniqueNewItems ==
            SelectSeq(newItems, LAMBDA item :
                /\ Truthy(Prop(item, "activity_id"))
                /\ Prop(item, "activity_id") \notin existingIds)
    IN  IF uniqueNewItems = <<>> THEN prev
        ELSE sortActivities(prev \o uniqueNewItems)

\* the updater handleDeleteActivity passes to setActivities
WithoutId(prev, activityId) ==
    SelectSeq(prev, LAMBDA activity : Prop(activity, "activity_id") # Num(activityId))

\* The list (FlatList and its cards) is on screen.
ListShown == error = Null /\ Len(filteredActivities) > 0

ScreenIdle ==
    /\ isLoading = TRUE /\ error = Null /\ page = 1 /\ hasMore = TRUE
    /\ isFetchingMore = FALSE
    /\ availableCategories = <<>> /\ availableActivities = <<>>
    /\ availableTags = <<>>
    /\ showAddModal = FALSE
    /\ inFlight = <<>>
    /\ showEditModal = FALSE /\ selectedActivity = Null
    /\ lastAlert = "none"
    /\ server = <<>> /\ writes = 0

\* a call of loadActivities(forceRefresh) suspended at its await
Load(forceRefresh) == [op |-> "load", forceRefresh |-> forceRefresh]

\* loadActivities up to its await: the focus effect passes true, the refresh
\* and retry buttons pass their press event, which is truthy.
loadActivitiesCall ==
    /\ Len(inFlight) < MaxInFlight
    /\ isLoading' = TRUE
    /\ error' = Null
    /\ page' = 1
    /\ inFlight' = Append(inFlight, Load(TRUE))
    /\ UNCHANGED <<hasMore, isFetchingMore, availableCategories,
                   availableActivities, availableTags, showAddModal,
                   listVars, retryVars, cacheVars, normVars, callVars, syncVars, now>>

\* loadActivities from the await on: withRetry(fetchActivities) resolved
\* with the array `data`.
loadActivitiesResolves(i, data) ==
    /\ i \in 1..Len(inFlight) /\ inFlight[i].op = "load"
    /\ LET shown == IF Len(data) > 0 THEN NormalizeAll(data) ELSE data
           sortedActivities == sortActivities(shown)
       IN  /\ availableCategories' = UniqueField(shown, "Category", "category")
           /\ availableActivities' = UniqueField(shown, "Activity", "activity")
           /\ availableTags' = UniqueTags(shown)
           /\ activities' = sortedActivities
           /\ filteredActivities' = Filter(activities', searchQuery, filters)
           /\ hasMore' = (Len(shown) >= itemsPerPage)
    /\ isLoading' = FALSE
    /\ inFlight' = RemoveAt(inFlight, i)
    /\ UNCHANGED <<error, page, isFetchingMore, showAddModal, searchQuery,
                   filters, retryVars, cacheVars, normVars, callVars, syncVars, now>>

\* loadMoreActivities up to its await: onEndReached, the "Load more" button.
loadMoreActivitiesCall ==
    /\ ListShown
    /\ hasMore /\ ~isFetchingMore
    /\ page < MaxPage
    /\ Len(inFlight) < MaxInFlight
    /\ isFetchingMore' = TRUE
    /\ inFlight' = Append(inFlight, [op |-> "more", nextPage |-> page + 1])
    /\ UNCHANGED <<isLoading, error, page, hasMore, availableCategories,
                   availableActivities, availableTags, showAddModal,
                   listVars, retryVars, cacheVars, normVars, callVars, syncVars, now>>

\* React renders the component again after a state change; the new
\* loadMoreActivities (useCallback over hasMore, isFetchingMore and page)
\* replaces the one the list and the button call.
Rendering ==
    [page |-> page, hasMore |-> hasMore, isFetchingMore |-> isFetchingMore,
     listShown |-> ListShown]
Render ==
    /\ rendered # Rendering
    /\ rendered' = Rendering
    /\ UNCHANGED <<input, output, timeoutVars, screenVars, listVars, retryVars,
                   cacheVars, normVars, syncVars, now>>

\* onEndReached or the "Load more" button calls the loadMoreActivities of
\* the last render, which runs up to its await; with `!hasMore ||
\* isFetchingMore` in its closure it returns at once.
loadMoreActivitiesFires ==
    /\ rendered.listShown
    /\ rendered.hasMore /\ ~rendered.isFetchingMore
    /\ rendered.page < MaxPage
    /\ Len(inFlight) < MaxInFlight
    /\ isFetchingMore' = TRUE
    /\ inFlight' = Append(inFlight, [op |-> "more", nextPage |-> rendered.page + 1])
    /\ UNCHANGED <<isLoading, error, page, hasMore, availableCategories,
                   availableActivities, availableTags, showAddModal,
                   listVars, retryVars, cacheVars, normVars, callVars, syncVars, now>>

\* loadMoreActivities from the await on: the fetch resolved with `allData`.
loadMoreActivitiesResolves(i, allData) ==
    /\ i \in 1..Len(inFlight) /\ inFlight[i].op = "more"
    /\ LET newItems == SubSeq(allData, 1,
                          IF Len(allData) < itemsPerPage THEN Len(allData)
                          ELSE itemsPerPage)
       IN  IF Len(newItems) = 0
             THEN /\ hasMore' = FALSE
                  /\ UNCHANGED <<activities, filteredActivities, page>>
             ELSE /\ activities' = WithMore(activities, newItems)
                  /\ filteredActivities' = Filter(activities', searchQuery, filters)
                  /\ page' = inFlight[i].nextPage
                  /\ hasMore' = (Len(newItems) >= itemsPerPage)
    /\ isFetchingMore' = FALSE
    /\ inFlight' = RemoveAt(inFlight, i)
    /\ UNCHANGED <<isLoading, error, availableCategories, availableActivities,
                   availableTags, showAddModal, searchQuery, filters,
                   retryVars, cacheVars, normVars, callVars, syncVars, now>>

\* The + button.
OpenAddModal ==
    /\ ~showAddModal
    /\ showAddModal' = TRUE
    /\ UNCHANGED <<isLoading, error, page, hasMore, isFetchingMore,
                   availableCategories, availableActivities, availableTags,
                   inFlight, listVars, retryVars, cacheVars, normVars, callVars, syncVars, now>>

\* The form's cancel button, the modal's onRequestClose.
CloseAddModal ==
    /\ showAddModal
    /\ showAddModal' = FALSE
    /\ UNCHANGED <<isLoading, error, page, hasMore, isFetchingMore,
                   availableCategories, availableActivities, availableTags,
                   inFlight, listVars, retryVars, cacheVars, normVars, callVars, syncVars, now>>

\* handleAddActivity up to its await.
handleAddActivityCall(form) ==
    /\ showAddModal
    /\ MaxId(activities) < MaxNewId
    /\ Len(inFlight) < MaxInFlight
    /\ isLoading' = TRUE
    /\ inFlight' = Append(inFlight, [op |-> "add",
                                     newActivity |-> NewActivity(form, activities)])
    /\ UNCHANGED <<error, page, hasMore, isFetchingMore, availableCategories,
                   availableActivities, availableTags, showAddModal,
                   listVars, retryVars, cacheVars, normVars, callVars, syncVars, now>>

\* handleAddActivity from the await on: withRetry(createActivity) resolved.
\* The list is updated, loadActivities(true) runs up to its await, and the
\* finally block clears isLoading.
handleAddActivityResolves(i, served) ==
    /\ i \in 1..Len(inFlight) /\ inFlight[i].op = "add"
    /\ showAddModal' = FALSE
    /\ LET result == CreateResult(inFlight[i].newActivity, served)
           added == AddedActivity(result, inFlight[i].newActivity)
       IN  /\ activities' = WithAdded(activities, added)
           /\ filteredActivities' = Filter(activities', searchQuery, filters)
    /\ error' = Null
    /\ page' = 1
    /\ lastAlert' = "Success"
    /\ inFlight' = Append(RemoveAt(inFlight, i), Load(TRUE))
    /\ isLoading' = FALSE
    /\ UNCHANGED <<hasMore, isFetchingMore, availableCategories,
                   availableActivities, availableTags, searchQuery, filters,
                   showEditModal, selectedActivity, server, writes,
                   retryVars, cacheVars, normVars, callVars, now>>

\* withRetry(createActivity) rejected: the alert, then the finally block.
handleAddActivityRejects(i) ==
    /\ i \in 1..Len(inFlight) /\ inFlight[i].op = "add"
    /\ lastAlert' = "Error"
    /\ isLoading' = FALSE
    /\ inFlight' = RemoveAt(inFlight, i)
    /\ UNCHANGED <<error, page, hasMore, isFetchingMore, availableCategories,
                   availableActivities, availableTags, showAddModal,
                   showEditModal, selectedActivity, server, writes,
                   listVars, retryVars, cacheVars, normVars, callVars, now>>

\* A card's delete button and the dialog's "Delete": handleDeleteActivity
\* up to its await.
handleDeleteActivityCall(k) ==
    /\ ListShown
    /\ k \in 1..Len(filteredActivities)
    /\ Truthy(Prop(filteredActivities[k], "activity_id"))
    /\ Len(inFlight) < MaxInFlight
    /\ isLoading' = TRUE
    /\ inFlight' = Append(inFlight,
          [op |-> "delete",
           activityId |-> Prop(filteredActivities[k], "activity_id").n])
    /\ UNCHANGED <<error, page, hasMore, isFetchingMore, availableCategories,
                   availableActivities, availableTags, showAddModal,
                   listVars, retryVars, cacheVars, normVars, callVars, syncVars, now>>

\* handleDeleteActivity from the await on: withRetry(deleteActivity)
\* resolved, with or without a message.
handleDeleteActivityResolves(i, hasMessage) ==
    /\ i \in 1..Len(inFlight) /\ inFlight[i].op = "delete"
    /\ IF hasMessage
         THEN /\ activities' = WithoutId(activities, inFlight[i].activityId)
              /\ filteredActivities' = Filter(activities', searchQuery, filters)
              /\ error' = Null
              /\ page' = 1
              /\ lastAlert' = "Success"
              /\ inFlight' = Append(RemoveAt(inFlight, i), Load(FALSE))
         ELSE /\ inFlight' = RemoveAt(inFlight, i)
              /\ UNCHANGED <<activities, filteredActivities, error, page,
                             lastAlert>>
    /\ isLoading' = FALSE
    /\ UNCHANGED <<hasMore, isFetchingMore, availableCategories,
                   availableActivities, availableTags, showAddModal,
                   showEditModal, selectedActivity, server, writes,
                   searchQuery, filters, retryVars, cacheVars, normVars, callVars, now>>

\* withRetry(deleteActivity) rejected: the alert, then the finally block.
handleDeleteActivityRejects(i) ==
    /\ i \in 1..Len(inFlight) /\ inFlight[i].op = "delete"
    /\ lastAlert' = "Error"
    /\ isLoading' = FALSE
    /\ inFlight' = RemoveAt(inFlight, i)
    /\ UNCHANGED <<error, page, hasMore, isFetchingMore, availableCategories,
                   availableActivities, availableTags, showAddModal,
                   showEditModal, selectedActivity, server, writes,
                   listVars, retryVars, cacheVars, normVars, callVars, now>>

\* Pressing a card or its edit button.
OpenEditModal(k) ==
    /\ ListShown
    /\ k \in 1..Len(filteredActivities)
    /\ selectedActivity' = filteredActivities[k]
    /\ showEditModal' = TRUE
    /\ UNCHANGED <<isLoading, error, page, hasMore, isFetchingMore,
                   availableCategories, availableActivities, availableTags,
                   showAddModal, inFlight, lastAlert, server, writes,
                   listVars, retryVars, cacheVars, normVars, callVars, now>>

\* The edit form's cancel button, the modal's onRequestClose.
CloseEditModal ==
    /\ showEditModal
    /\ showEditModal' = FALSE
    /\ selectedActivity' = Null
    /\ UNCHANGED <<isLoading, error, page, hasMore, isFetchingMore,
                   availableCategories, availableActivities, availableTags,
                   showAddModal, inFlight, lastAlert, server, writes,
                   listVars, retryVars, cacheVars, normVars, callVars, now>>

\* the keys of updatedActivity whose value differs (!==) from the selected
\* activity's; activity_id is skipped
ChangedKeys(selected, updatedActivity) ==
    {key \in DOMAIN updatedActivity.o \ {"activity_id"} :
        Prop(selected, key) # updatedActivity.o[key]}

\* `fields` as handleUpdateActivity collects it
ChangedFields(selected, updatedActivity) ==
    [key \in ChangedKeys(selected, updatedActivity) |-> updatedActivity.o[key]]

\* What the edit form submits: the points changed, or nothing changed.
EditForms ==
    IF selectedActivity = Null THEN {}
    ELSE {Obj([Points |-> Num(7)]),
          Obj([Points |-> Prop(selectedActivity, "Points")])}

\* handleUpdateActivity up to its await, or to its end when nothing changed.
handleUpdateActivityCall(updatedActivity) ==
    /\ showEditModal /\ selectedActivity # Null
    /\ Truthy(Prop(selectedActivity, "activity_id"))
    /\ IF ChangedKeys(selectedActivity, updatedActivity) # {}
         THEN /\ Len(inFlight) < MaxInFlight
              /\ isLoading' = TRUE
              /\ inFlight' = Append(inFlight,
                    [op |-> "update",
                     activityId |-> Prop(selectedActivity, "activity_id").n,
                     fields |-> ChangedFields(selectedActivity, updatedActivity)])
              /\ UNCHANGED <<showEditModal, selectedActivity>>
         ELSE /\ isLoading' = FALSE
              /\ showEditModal' = FALSE
              /\ selectedActivity' = Null
              /\ UNCHANGED inFlight
    /\ UNCHANGED <<error, page, hasMore, isFetchingMore, availableCategories,
                   availableActivities, availableTags, showAddModal,
                   lastAlert, server, writes,
                   listVars, retryVars, cacheVars, normVars, callVars, now>>

\* handleUpdateActivity from the await on: withRetry(updateActivity)
\* resolved. loadActivities() runs up to its await, the form closes, and
\* the finally block clears isLoading.
handleUpdateActivityResolves(i) ==
    /\ i \in 1..Len(inFlight) /\ inFlight[i].op = "update"
    /\ lastAlert' = "Success"
    /\ error' = Null
    /\ page' = 1
    /\ inFlight' = Append(RemoveAt(inFlight, i), Load(FALSE))
    /\ showEditModal' = FALSE
    /\ selectedActivity' = Null
    /\ isLoading' = FALSE
    /\ UNCHANGED <<hasMore, isFetchingMore, availableCategories,
                   availableActivities, availableTags, showAddModal, server, writes,
                   listVars, retryVars, cacheVars, normVars, callVars, now>>

\* withRetry(updateActivity) rejected: the alert, then the finally block;
\* the form stays open.
handleUpdateActivityRejects(i) ==
    /\ i \in 1..Len(inFlight) /\ inFlight[i].op = "update"
    /\ lastAlert' = "Error"
    /\ isLoading' = FALSE
    /\ inFlight' = RemoveAt(inFlight, i)
    /\ UNCHANGED <<error, page, hasMore, isFetchingMore, availableCategories,
                   availableActivities, availableTags, showAddModal,
                   showEditModal, selectedActivity, server, writes,
                   listVars, retryVars, cacheVars, normVars, callVars, now>>

\* What the filter bar can apply: selections from the options on offer.
OfferedFilters ==
    {NoFilters} \cup
    {Member("categories", SetTo(<<availableCategories[i]>>)) :
        i \in 1..Len(availableCategories)}

-----------------------------------------------------------------------------
(* The API calls behind the handlers, src/services/points-api.ts:1349-1695 *)

\* how a call of an async function ends
Thrown == [kind |-> "throw"]
Returned(v) == [kind |-> "return", value |-> v]

DefaultMaxRetries == 3      \* withRetry(fn, maxRetries = 3, delay = 1000)

Today == Mar05              \* new Date().toISOString().split('T')[0]

\* the record fetchActivities makes up when the request failed and the cache
\* has nothing to offer
TestRec ==
    Obj([Activity |-> S(<<"T", "e", "s", "t">>), Category |-> S(<<"T">>),
         Date |-> S(Today), Start_Time |-> S(T0900), End_Time |-> S(T1300),
         Points |-> Num(10), Notes |-> S(<<"T">>), Tags |-> S(<<"t">>),
         activity_id |-> Num(9999)])

Failed == <<"F", "a", "i", "l", "e", "d">>      \* an error body's message

\* What a request can come to: no response at all (network error, abort on
\* timeout), or a response with a status and a body text.
NoResponse == [kind |-> "none"]
Response(ok, text) == [kind |-> "response", ok |-> ok, text |-> text]
CutShort(text) == SubSeq(text, 1, Len(text) - 1)

\* GET /get-event-data, for the server's list `rows`
GetOutcomes(rows) ==
    { NoResponse,
      Response(FALSE, Stringify(Obj([message |-> S(Failed)]))),
      Response(TRUE, CutShort(Stringify(Arr(rows)))),
      Response(TRUE, Stringify(Obj([message |-> S(Failed)]))),
      Response(TRUE, Stringify(Obj([activities |-> Arr(rows)]))),
      Response(TRUE, Stringify(Arr(rows))) }

\* the array a cached value offers on the error path:
\* `cachedData && cachedData.length > 0`
NonEmptyArray(v) == v.t = "arr" /\ Len(v.a) > 0

\* (saveToCache called for every array the server sends)
GotAnyArray(data) == TRUE
\* "Save to cache only if we actually got data": data.length > 0
GotData(data) == Len(data.a) > 0

\* (the cache consulted only for the first page)
CacheFirstPage(forceRefresh, cachedData) == FALSE
\* `if (!forceRefresh)` and `if (cachedData)`: the cached value is returned
\* before a request is made
CacheFirst(forceRefresh, cachedData) == ~forceRefresh /\ Truthy(cachedData)

\* fetchActivities(forceRefresh), given what getItem returns at time t and
\* what the request comes to: the value it resolves with, where that value
\* came from, whether the GET request was sent, and whether saveToCache was
\* called with the value.
fetchActivities(forceRefresh, item, t, net) ==
    LET cachedData == GetFromCache(item, t)
        failed == [data |-> IF NonEmptyArray(cachedData) THEN cachedData
                            ELSE Arr(<<TestRec>>),
                   from |-> IF NonEmptyArray(cachedData) THEN "cache" ELSE "test",
                   requested |-> TRUE, saved |-> FALSE]
    IN  IF CacheFirst(forceRefresh, cachedData)
          THEN [data |-> cachedData, from |-> "cache", requested |-> FALSE,
                saved |-> FALSE]
        ELSE IF net.kind = "none" THEN failed              \* fetch rejects
        ELSE IF ~net.ok THEN failed                        \* !response.ok
        ELSE LET r == JsonParse(net.text) IN
          IF ~r.ok THEN failed                             \* JSON.parse throws
          ELSE IF r.v.t = "arr"
                 THEN [data |-> r.v, from |-> "server", requested |-> TRUE,
                       saved |-> GotData(r.v)]
          ELSE IF Prop(r.v, "activities").t = "arr"
                 THEN [data |-> Prop(r.v, "activities"), from |-> "server",
                       requested |-> TRUE, saved |-> FALSE]
          ELSE [data |-> Arr(<<>>), from |-> "none", requested |-> TRUE,
                saved |-> FALSE]

\* The call at position i of inFlight has not settled yet.
Awaiting(i, op) ==
    /\ i \in 1..Len(inFlight) /\ inFlight[i].op = op
    /\ "reply" \notin DOMAIN inFlight[i]
Replied(i) == i \in 1..Len(inFlight) /\ "reply" \in DOMAIN inFlight[i]
WithReply(call, reply) == [reply |-> reply] @@ call
Resolved(i, op) == Replied(i) /\ inFlight[i].op = op /\ inFlight[i].reply.ok
\* (a rejection no handler catches)
RejectedUncaught(i, op) == FALSE
Rejected(i, op) == Replied(i) /\ inFlight[i].op = op /\ ~inFlight[i].reply.ok

\* The server answers the GET of a suspended loadActivities while a create
\* is on its way: the response, still to arrive, carries the rows of this
\* moment.
getEventDataServed(i) ==
    /\ Awaiting(i, "load") /\ "served" \notin DOMAIN inFlight[i]
    /\ \E j \in 1..Len(inFlight) : Awaiting(j, "add")
    /\ inFlight' = [inFlight EXCEPT ![i] = [served |-> server] @@ @]
    /\ UNCHANGED <<isLoading, error, page, hasMore, isFetchingMore,
                   availableCategories, availableActivities, availableTags,
                   showAddModal, listVars, retryVars, cacheVars, normVars,
                   callVars, syncVars, now>>

\* the rows the response to the GET of call i carries
RowsServed(i) ==
    IF i \in 1..Len(inFlight) /\ "served" \in DOMAIN inFlight[i]
      THEN inFlight[i].served ELSE server

\* withRetry(fetchActivities) settles for a suspended loadActivities.
fetchActivitiesSettles(i, net) ==
    /\ Awaiting(i, "load")
    /\ LET r == fetchActivities(inFlight[i].forceRefresh, cacheStore, now, net)
       IN  /\ inFlight' = [inFlight EXCEPT ![i] = WithReply(@, r)]
           /\ IF r.saved
                THEN /\ Len(storageOps) < MaxPending
                     /\ storageOps' = Append(storageOps,
                           [op |-> "setItem", text |-> CacheText(now, r.data),
                            ts |-> now, data |-> r.data])
                ELSE UNCHANGED storageOps
    /\ UNCHANGED <<isLoading, error, page, hasMore, isFetchingMore,
                   availableCategories, availableActivities, availableTags,
                   showAddModal, cacheStore, cacheEntry, readPc, readResult,
                   ticks, listVars, retryVars, normVars, callVars, syncVars, now>>

\* the fields createActivity insists on
RequiredFields == {"Activity", "Category", "Date", "Start_Time", "End_Time"}
MissingFields(activity) == {f \in RequiredFields : ~Truthy(Prop(activity, f))}

\* (createActivity answering a body it cannot parse with its fallback)
createActivityLenient(activity, net) ==
    IF MissingFields(activity) # {} THEN Thrown
    ELSE IF net.kind = "none" THEN Thrown
    ELSE LET r == JsonParse(net.text) IN
      IF ~r.ok THEN Returned(FallbackActivity(activity))
      ELSE IF ~net.ok THEN Thrown
      ELSE Returned(CreateResult(activity, Prop(r.v, "activity")))
\* createActivity(activity), given what its POST comes to
createActivity(activity, net) ==
    IF MissingFields(activity) # {} THEN Thrown     \* Missing required fields
    ELSE IF net.kind = "none" THEN Thrown           \* xhr.onerror, ontimeout
    ELSE LET r == JsonParse(net.text) IN
      IF ~r.ok THEN Thrown                          \* Failed to parse response
      ELSE IF ~net.ok THEN Thrown                   \* API error
      ELSE Returned(CreateResult(activity, Prop(r.v, "activity")))

\* the message of the error createActivity throws at `net`
createActivityError(activity, net) ==
    IF MissingFields(activity) # {} THEN "Missing required fields"
    ELSE IF net.kind = "none" THEN "Network request failed"
    ELSE IF ~JsonParse(net.text).ok THEN "Failed to parse response"
    ELSE "API error"

\* deleteActivity(activityId), given what its POST comes to
deleteActivity(net) ==
    IF net.kind = "none" THEN Thrown                \* fetch rejects
    ELSE LET r == JsonParse(net.text) IN
      IF ~r.ok THEN Thrown                          \* response.json() rejects
      ELSE IF ~net.ok THEN Thrown
      ELSE Returned(r.v)

\* one /update-cell request of updateActivity
UpdateCell(net) ==
    IF net.kind = "none" THEN Thrown
    ELSE LET r == JsonParse(net.text) IN
      IF ~r.ok THEN Thrown
      ELSE IF ~net.ok THEN Thrown
      ELSE Returned(r.v)

\* updateActivity(activityId, fields): Promise.all over one request per
\* field, nets[f] being what the request for field f comes to
updateActivity(fields, nets) ==
    IF \E f \in DOMAIN fields : UpdateCell(nets[f]).kind = "throw"
      THEN Thrown
      ELSE Returned([f \in DOMAIN fields |-> UpdateCell(nets[f]).value])

\* What a POST can come to, `body` being the server's answer when it accepts:
\* no response, an error status, a body that is not JSON (sent by something
\* between the app and the server), the server's answer.
PostKinds == {"none", "status", "garbled", "answer"}
\* ... and the outcomes of a request that reached the server and was acted
\* on, while its response did not reach the client ("lost": xhr.ontimeout
\* or xhr.onerror) or reached it with a body JSON.parse rejects ("cut")
LostKinds == {"lost", "cut"}
Post(kind, body) ==
    CASE kind = "none"    -> NoResponse
      [] kind = "status"  -> Response(FALSE, Stringify(Obj([message |-> S(Failed)])))
      [] kind = "garbled" -> Response(TRUE, CutShort(Stringify(body)))
      [] kind = "answer"  -> Response(TRUE, Stringify(body))
      [] kind = "lost"    -> NoResponse
      [] kind = "cut"     -> Response(TRUE, CutShort(Stringify(body)))

\* The server acts on the requests it answers itself with a 2xx status.
Accepted(kind) == kind \in {"answer"} \cup LostKinds

\* the server's answers to /submit-activity, /delete-row and /update-cell
Echo(activity) == Obj([activity |-> activity])
Bare == Obj([status |-> S(Success)])
Message == Obj([message |-> S(Success)])

\* the rows after /update-cell has been applied for the accepted fields
UpdateRow(rows, activityId, fields) ==
    [k \in 1..Len(rows) |->
        IF Prop(rows[k], "activity_id") = Num(activityId)
          THEN Obj(fields @@ rows[k].o)
          ELSE rows[k]]

\* withRetry around a suspended write whose latest attempt came to `tried`:
\* the call resolves, is tried again while the loop test holds, or rejects.
\* `fault` notes what went wrong with the attempt's requests, if anything.
AfterAttempt(call, tried, fault) ==
    LET failedSoFar == IF "attempt" \in DOMAIN call THEN call.attempt ELSE 0 IN
    IF tried.kind = "return"
      THEN WithReply(call, [ok |-> TRUE, value |-> tried.value, fault |-> fault])
    ELSE IF LoopTest(failedSoFar + 1, DefaultMaxRetries)
      THEN [attempt |-> failedSoFar + 1] @@ call
    ELSE WithReply(call, [ok |-> FALSE, fault |-> fault])

\* what went wrong with requests that came to `kinds`
Fault(kinds) ==
    IF kinds \subseteq {"answer"} THEN "no fault"
    ELSE CHOOSE kind \in kinds : kind # "answer"

\* the write has settled once its call carries a reply
Settles(call) == IF "reply" \in DOMAIN call THEN 1 ELSE 0

\* One attempt of createActivity for a suspended handleAddActivity. When it
\* returns, removeItem(CACHE_KEY) has been awaited.
createActivityAttempt(i, kind, echoed) ==
    /\ Awaiting(i, "add")
    /\ LET activity == inFlight[i].newActivity
           net == Post(kind, IF echoed THEN Echo(activity) ELSE Bare)
           tried == createActivity(activity, net)
           call == AfterAttempt(inFlight[i], tried, Fault({kind}))
       IN  /\ server' = IF MissingFields(activity) = {} /\ Accepted(kind)
                          THEN Append(server, activity) ELSE server
           /\ inFlight' = [inFlight EXCEPT ![i] = call]
           /\ writes' = writes + Settles(call)
           /\ IF tried.kind = "return"
                THEN cacheStore' = Absent /\ cacheEntry' = [kind |-> "none"]
                ELSE UNCHANGED <<cacheStore, cacheEntry>>
    /\ UNCHANGED <<isLoading, error, page, hasMore, isFetchingMore,
                   availableCategories, availableActivities, availableTags,
                   showAddModal, showEditModal, selectedActivity, lastAlert,
                   storageOps, readPc, readResult, ticks,
                   listVars, retryVars, normVars, callVars, now>>

\* One attempt of deleteActivity for a suspended handleDeleteActivity.
deleteActivityAttempt(i, kind, hasMessage) ==
    /\ Awaiting(i, "delete")
    /\ LET net == Post(kind, IF hasMessage THEN Message ELSE Bare)
           call == AfterAttempt(inFlight[i], deleteActivity(net), Fault({kind}))
       IN  /\ server' = IF Accepted(kind)
                          THEN WithoutId(server, inFlight[i].activityId)
                          ELSE server
           /\ inFlight' = [inFlight EXCEPT ![i] = call]
           /\ writes' = writes + Settles(call)
    /\ UNCHANGED <<isLoading, error, page, hasMore, isFetchingMore,
                   availableCategories, availableActivities, availableTags,
                   showAddModal, showEditModal, selectedActivity, lastAlert,
                   listVars, retryVars, cacheVars, normVars, callVars, now>>

\* One attempt of updateActivity for a suspended handleUpdateActivity.
updateActivityAttempt(i, kinds) ==
    /\ Awaiting(i, "update")
    /\ DOMAIN kinds = DOMAIN inFlight[i].fields
    /\ LET fields == inFlight[i].fields
           nets == [f \in DOMAIN fields |-> Post(kinds[f], Bare)]
           accepted == {f \in DOMAIN fields : Accepted(kinds[f])}
           call == AfterAttempt(inFlight[i], updateActivity(fields, nets),
                                Fault({kinds[f] : f \in DOMAIN fields}))
       IN  /\ server' = UpdateRow(server, inFlight[i].activityId,
                                  [f \in accepted |-> fields[f]])
           /\ inFlight' = [inFlight EXCEPT ![i] = call]
           /\ writes' = writes + Settles(call)
    /\ UNCHANGED <<isLoading, error, page, hasMore, isFetchingMore,
                   availableCategories, availableActivities, availableTags,
                   showAddModal, showEditModal, selectedActivity, lastAlert,
                   listVars, retryVars, cacheVars, normVars, callVars, now>>

\* write calls sent to the server so far
WritesSent ==
    writes + Cardinality({i \in 1..Len(inFlight) :
                             inFlight[i].op \in {"add", "delete", "update"}
                             /\ "reply" \notin DOMAIN inFlight[i]})

-----------------------------------------------------------------------------
(* The analytics read paths, src/services/points-api.ts:926-1299 *)

Zero == Num(0)
None == Arr(<<>>)

\* the structure each function returns from its catch block
ActivityStatsFallback ==
    Obj([time_periods |-> None, categories |-> None,
         points_distribution |-> None, current_streak |-> Zero,
         hour_distribution |-> None,
         totals |-> Obj([total_activities |-> Zero, total_points |-> Zero,
                         total_hours |-> Zero, total_days |-> Zero,
                         total_categories |-> Zero, points_per_hour |-> Zero]),
         daily_activity |-> None])
MoodStatsFallback ==
    Obj([time_periods |-> None, mood_distribution |-> None,
         sleep_mood_correlation |-> None,
         totals |-> Obj([avg_mood |-> Zero, avg_energy |-> Zero,
                         avg_stress |-> Zero, avg_sleep |-> Zero,
                         total_entries |-> Zero, min_mood |-> Zero,
                         max_mood |-> Zero]),
         mood_trend |-> None])
JournalStatsFallback ==
    Obj([entries_by_date |-> None, streaks |-> None, tag_frequency |-> None,
         totals |-> Obj([total_entries |-> Zero, unique_days |-> Zero,
                         avg_length |-> Zero]),
         journal_mood_correlation |-> None])
DashboardSummaryFallback ==
    Obj([total_points |-> Zero,
         activity_summary |-> Obj([total_activities |-> Zero,
                                   total_hours |-> Zero,
                                   current_streak |-> Zero,
                                   top_categories |-> None]),
         mood_summary |-> Obj([avg_mood |-> Null, mood_trend |-> None,
                               total_entries |-> Zero]),
         journal_summary |-> Obj([total_entries |-> Zero, unique_days |-> Zero,
                                  top_tags |-> None])])

StatsFns ==
    {"getActivityStats", "getMoodStats", "getJournalStats",
     "getActivityTimeline", "getDashboardSummary"}

Fallback(fn) ==
    CASE fn = "getActivityStats"    -> ActivityStatsFallback
      [] fn = "getMoodStats"        -> MoodStatsFallback
      [] fn = "getJournalStats"     -> JournalStatsFallback
      [] fn = "getActivityTimeline" -> None
      [] fn = "getDashboardSummary" -> DashboardSummaryFallback

\* the key each function's validation looks at
CheckedKey(fn) ==
    IF fn = "getDashboardSummary" THEN "activity_summary" ELSE "totals"

\* `!data || typeof data !== 'object' || !data.totals`, and for the timeline
\* `!Array.isArray(data)`
InvalidStructure(fn, data) ==
    IF fn = "getActivityTimeline" THEN data.t # "arr"
    ELSE \/ ~Truthy(data)
         \/ data.t \notin {"obj", "arr", "null"}
         \/ ~Truthy(Prop(data, CheckedKey(fn)))

\* the try block of a read path, given what the request comes to
TryRead(fn, net) ==
    IF net.kind = "none" THEN Thrown                      \* fetch rejects
    ELSE LET r == JsonParse(net.text) IN
      IF ~r.ok THEN Thrown                                \* JSON.parse throws
      ELSE IF ~net.ok THEN Thrown                         \* !response.ok
      ELSE IF InvalidStructure(fn, r.v) THEN Thrown
      ELSE Returned(r.v)

\* (a catch block that throws the error on)
CaughtRethrown(fn, tried) ==
    IF tried.kind = "throw" THEN [state |-> "rejected"]
    ELSE [state |-> "resolved", value |-> tried.value]
\* the catch block: the fallback takes the place of any error
Caught(fn, tried) ==
    IF tried.kind = "throw" THEN [state |-> "resolved", value |-> Fallback(fn)]
    ELSE [state |-> "resolved", value |-> tried.value]

\* A complete response of each endpoint, one that has only the checked key,
\* and bodies of another shape.
CompleteBody(fn) ==
    IF fn = "getActivityTimeline"
      THEN Arr(<<Obj([activity |-> S(Run), points |-> Num(10)])>>)
      ELSE Obj([Fallback(fn).o EXCEPT
                  ![CheckedKey(fn)] = Obj([total_entries |-> Num(3)])])
PartialBody(fn) ==
    IF fn = "getActivityTimeline"
      THEN Arr(<<Obj([points |-> Num(10)])>>)
      ELSE Obj([k \in {CheckedKey(fn)} |-> Obj([total_entries |-> Num(3)])])
OtherBodies ==
    {Null, Num(5), S(Failed), Obj([message |-> S(Failed)]),
     Obj([totals |-> Zero, activity_summary |-> Null])}

\* One call of a read path with what its request comes to, filed under the
\* class of failure the outcome belongs to.
StatsCalls ==
    UNION {
      {[fn |-> fn, class |-> "network", net |-> NoResponse]}
      \cup {[fn |-> fn, class |-> "status", net |-> Response(FALSE, Stringify(b))] :
              b \in {CompleteBody(fn), Obj([message |-> S(Failed)])}}
      \cup {[fn |-> fn, class |-> "parse", net |-> Response(TRUE, text)] :
              text \in {<<>>, CutShort(Stringify(CompleteBody(fn)))}}
      \cup {[fn |-> fn, class |-> "shape", net |-> Response(TRUE, Stringify(b))] :
              b \in OtherBodies \cup {PartialBody(fn)}
                     \cup (IF fn = "getActivityTimeline" THEN {} ELSE {None})}
      \cup {[fn |-> fn, class |-> "none", net |-> Response(TRUE, Stringify(CompleteBody(fn)))]}
      : fn \in StatsFns }

FetchCalls ==
    { [fn |-> "fetchActivities", class |-> c.class, net |-> c.net,
       forceRefresh |-> f, item |-> p.store, entry |-> p.entry] :
        f \in BOOLEAN, p \in PersistedStates,
        c \in {[class |-> "network", net |-> NoResponse],
               [class |-> "status",
                net |-> Response(FALSE, Stringify(Obj([message |-> S(Failed)])))],
               [class |-> "parse",
                net |-> Response(TRUE, CutShort(Stringify(Arr(<<RunRec>>))))],
               [class |-> "shape",
                net |-> Response(TRUE, Stringify(Obj([message |-> S(Failed)])))],
               [class |-> "shape",
                net |-> Response(TRUE, Stringify(Obj([activities |-> Arr(<<RunRec>>)])))],
               [class |-> "shape", net |-> Response(TRUE, Stringify(Null))],
               [class |-> "none",
                net |-> Response(TRUE, Stringify(Arr(<<RunRec>>)))]} }

\* (a catch block that throws the error on)
Rethrown(data) == Thrown
\* The catch blocks of fetchActivities: the inner one returns the cached
\* list or the test list, the outer one `[]`; neither throws.
ReturnedFromCatch(data) == Returned(data)

\* What a caller awaiting fetchActivities gets: the value returned from the
\* try block or from a catch block.
fetchActivitiesAwaited(forceRefresh, item, t, net) ==
    LET r == fetchActivities(forceRefresh, item, t, net) IN
    IF r.requested /\ r.from \in {"cache", "test"}
      THEN ReturnedFromCatch(r.data)
      ELSE Returned(r.data)

\* the calls of fn, counted from the first, that reject whenever made
RECURSIVE LeadingThrows(_, _)
LeadingThrows(call, i) ==
    IF i > Len(call.nets) THEN 0
    ELSE IF \E t \in 0..MaxClock :
              fetchActivitiesAwaited(call.forceRefresh, call.item, t,
                                     call.nets[i]).kind = "throw"
      THEN 1 + LeadingThrows(call, i + 1)
    ELSE 0

\* withRetry(() => fetchActivities(...), 3, 800) of loadActivities and
\* withRetry(() => fetchActivities(true, ...), 2, 500) of
\* loadMoreActivities, with what each request would come to
ListReads(calls) ==
    { [fn |-> "fetchActivities", forceRefresh |-> f, item |-> p.store,
       entry |-> p.entry, nets |-> nets, maxRetries |-> n] :
        f \in BOOLEAN, p \in PersistedStates, n \in {2, DefaultMaxRetries},
        nets \in [1..calls -> GetOutcomes(<<RunRecord>>)] }

\* fetchActivities calls with every kind of response, the empty list too
FrameCalls ==
    FetchCalls
    \cup { [fn |-> "fetchActivities", class |-> "empty",
            net |-> Response(TRUE, Stringify(Arr(<<>>))),
            forceRefresh |-> f, item |-> p.store, entry |-> p.entry] :
            f \in BOOLEAN, p \in PersistedStates }

\* `limit` rows of the list from `offset` on, and what the server may send
\* for ?limit=&offset=: that page, or the whole list when it ignores them
Page(rows, limit, offset) ==
    SubSeq(rows, offset + 1,
           IF offset + limit < Len(rows) THEN offset + limit ELSE Len(rows))
GetEventData(rows, limit, offset) == {rows, Page(rows, limit, offset)}

\* fetchActivities(forceRefresh, limit, offset) as loadActivities,
\* loadMoreActivities and the form's loadAutocompleteData call it, over a
\* cache written by an earlier fetch
PageCalls ==
    UNION { { [fn |-> "fetchActivities", forceRefresh |-> f, limit |-> l,
               offset |-> o, net |-> net, item |-> p.store, entry |-> p.entry] :
                f \in BOOLEAN, p \in PersistedStates,
                net \in {NoResponse}
                        \cup { Response(TRUE, Stringify(Arr(rows))) :
                                 rows \in GetEventData(<<RunRecord, ReadRecord>>, l, o) } } :
            l \in {itemsPerPage, 2 * itemsPerPage}, o \in {0, itemsPerPage} }

\* fetchActivities runs to its end over the stored cache; saveToCache is
\* called without await, so its setItem is left pending.
fetchActivitiesRuns ==
    /\ input # Null /\ output = Null
    /\ LET r == fetchActivities(input.forceRefresh, cacheStore, now, input.net)
       IN  /\ output' = [state |-> "resolved", value |-> r.data, from |-> r.from,
                          requested |-> r.requested]
           /\ storageOps' =
                 IF r.saved
                   THEN Append(storageOps,
                          [op |-> "setItem", text |-> CacheText(now, r.data),
                           ts |-> now, data |-> r.data])
                   ELSE storageOps
    /\ UNCHANGED <<input, rendered, timeoutVars, cacheStore, cacheEntry, readPc,
                   readResult, ticks, retryVars, listVars, normVars,
                   screenVars, syncVars, now>>

\* The call runs to its end.
ReadSettles ==
    /\ input # Null /\ output = Null
    /\ output' =
         IF input.fn = "fetchActivities"
           THEN LET r == fetchActivities(input.forceRefresh, input.item, now, input.net)
                IN  [state |-> "resolved", value |-> r.data, from |-> r.from]
           ELSE Caught(input.fn, TryRead(input.fn, input.net))
    /\ UNCHANGED <<input, rendered, timeoutVars, retryVars, cacheVars, listVars, normVars,
                   screenVars, syncVars, now>>

-----------------------------------------------------------------------------
(* The mood charts, src/app/(tabs)/logging.tsx:1306-1444 *)

MaxLogs == 2        \* longest list of mood logs the charts are given

\* Number(v)
ToNumber(v) ==
    CASE v.t = "num"  -> v
      [] v.t = "null" -> Num(0)
      [] v.t = "str"  -> IF \A i \in 1..Len(v.s) : IsDigit(v.s[i])
                           THEN Num(DecimalOf(v.s)) ELSE NaN
      [] OTHER -> NaN

\* isNaN(Number(v))
IsNaN(v) == ToNumber(v).t = "nan"

\* `isNaN(value) ? 0 : value`
OrZero(n) == IF n.t = "nan" THEN Num(0) ELSE n

\* formatDate(dateString): the date written out in the device's locale
formatDate(dateString) == [t |-> "label", of |-> dateString]

\* the filter of prepareMoodData and prepareSleepHoursData
HasNumber(log, property) ==
    LET value == Prop(log, property)
    IN  value # Undefined /\ value # Null /\ ~IsNaN(value)

\* the filter of prepareSleepMoodData
BothNumbers(log) ==
    /\ Prop(log, "sleep_hours") # Undefined
    /\ Prop(log, "mood_score") # Undefined
    /\ ~IsNaN(Prop(log, "sleep_hours"))
    /\ ~IsNaN(Prop(log, "mood_score"))

\* new Date(log.date).getTime() in the comparator, as a day number
LogDay(log) == NewDate(Prop(log, "date").s).day

RECURSIVE SortLogs(_)
\* logs.sort((a, b) => dateA - dateB): stable, ascending by date
SortLogs(logs) ==
    IF logs = <<>> THEN <<>>
    ELSE LET rest == SortLogs(SubSeq(logs, 1, Len(logs) - 1))
             last == logs[Len(logs)]
             before == SelectSeq(rest, LAMBDA l : LogDay(l) <= LogDay(last))
             after  == SelectSeq(rest, LAMBDA l : LogDay(l) > LogDay(last))
         IN  before \o <<last>> \o after

\* the point prepareMoodData and prepareSleepHoursData make of a log
DatedPoint(log, property) ==
    [x |-> Prop(log, "date"),
     y |-> OrZero(ToNumber(Prop(log, property))),
     date |-> formatDate(Prop(log, "date"))]

prepareMoodData(logs, property) ==
    IF Len(logs) = 0 THEN <<>>
    ELSE LET kept == SortLogs(SelectSeq(logs, LAMBDA log : HasNumber(log, property)))
         IN  [i \in 1..Len(kept) |-> DatedPoint(kept[i], property)]

prepareSleepHoursData(logs) ==
    IF Len(logs) = 0 THEN <<>>
    ELSE LET kept == SortLogs(SelectSeq(logs, LAMBDA log : HasNumber(log, "sleep_hours")))
         IN  [i \in 1..Len(kept) |-> DatedPoint(kept[i], "sleep_hours")]

prepareSleepMoodData(logs) ==
    IF Len(logs) = 0 THEN <<>>
    ELSE LET kept == SelectSeq(logs, BothNumbers)
         IN  [i \in 1..Len(kept) |->
                [x |-> OrZero(ToNumber(Prop(kept[i], "sleep_hours"))),
                 y |-> OrZero(ToNumber(Prop(kept[i], "mood_score"))),
                 date |-> formatDate(Prop(kept[i], "date"))]]

\* What a field of a mood log can hold.
FieldValues == {Undefined, Null, NaN, Num(0), Num(7)}

\* a mood log; a field that is undefined is left out
MoodLog(date, mood, sleep) ==
    LET all == [date |-> S(date), mood_score |-> mood, sleep_hours |-> sleep]
    IN  Obj([k \in {f \in DOMAIN all : all[f] # Undefined} |-> all[k]])

MoodLogs ==
    {MoodLog(d, m, h) : d \in {Mar01, Mar02}, m \in FieldValues, h \in FieldValues}

\* the calls with at most `longest` logs
MoodChartCalls(longest) ==
    {[chart |-> c, logs |-> l] :
        c \in {"prepareMoodData", "prepareSleepHoursData", "prepareSleepMoodData"},
        l \in UNION {[1..n -> MoodLogs] : n \in 0..longest}}

\* The chart's data is prepared.
MoodChartPrepared ==
    /\ input # Null /\ output = Null
    /\ output' = Arr(
         CASE input.chart = "prepareMoodData" ->
                prepareMoodData(input.logs, "mood_score")
           [] input.chart = "prepareSleepHoursData" ->
                prepareSleepHoursData(input.logs)
           [] input.chart = "prepareSleepMoodData" ->
                prepareSleepMoodData(input.logs))
    /\ UNCHANGED <<input, rendered, timeoutVars, retryVars, cacheVars, listVars, normVars,
                   screenVars, syncVars, now>>

-----------------------------------------------------------------------------
(* The analytics charts, src/app/(tabs)/explore.tsx:669-698, 1031-1059,
   1259-1288 *)

MaxItems == 2       \* longest aggregate list a chart is given
TopTags  == 10      \* tags the tag chart keeps

\* typeof v === 'number'
TypeofNumber(v) == v.t \in {"num", "nan"}

\* `typeof v === 'number' ? v : d`
NumberOr(v, d) == IF TypeofNumber(v) THEN v ELSE d

\* v.toString() of a number
NumberToString(v) ==
    IF v.t = "nan" THEN Str(<<"N", "a", "N">>) ELSE Str(NumToString(v.n))

\* s.substring(0, n)
Substring(s, n) == SubSeq(s, 1, IF Len(s) < n THEN Len(s) ELSE n)

\* list.filter(keep).map(point) of stats[key], [] when it is no array
ChartOf(stats, key, keep(_), point(_)) ==
    IF Prop(stats, key).t = "arr"
      THEN LET kept == SelectSeq(Prop(stats, key).a, keep)
           IN  [i \in 1..Len(kept) |-> point(kept[i])]
      ELSE <<>>

categoryData(activityStats) ==
    ChartOf(activityStats, "points_distribution",
            LAMBDA item : /\ Truthy(item) /\ Truthy(Prop(item, "category"))
                          /\ Prop(item, "points") # Undefined
                          /\ Prop(item, "percentage") # Undefined,
            LAMBDA item :
                [x |-> Prop(item, "category"),
                 y |-> NumberOr(Prop(item, "points"), Num(0)),
                 label |-> Str(Prop(item, "category").s \o <<":", " ">>
                               \o NumberToString(
                                    NumberOr(Prop(item, "percentage"), Num(0))).s
                               \o <<"%">>)])

hoursByDayData(activityStats) ==
    ChartOf(activityStats, "hour_distribution",
            LAMBDA item : /\ Truthy(item) /\ Truthy(Prop(item, "day"))
                          /\ Prop(item, "hours") # Undefined,
            LAMBDA item :
                [x |-> IF Prop(item, "day").t = "str"
                         THEN Str(Substring(Prop(item, "day").s, 3))
                         ELSE Str(<<"?", "?", "?">>),
                 y |-> NumberOr(Prop(item, "hours"), Num(0))])

activityTrendData(activityStats) ==
    ChartOf(activityStats, "time_periods",
            LAMBDA item : /\ Truthy(item) /\ Truthy(Prop(item, "period"))
                          /\ Prop(item, "activity_count") # Undefined,
            LAMBDA item :
                [x |-> Prop(item, "period"),
                 y |-> NumberOr(Prop(item, "activity_count"), Num(0))])

moodTrendData(moodStats) ==
    ChartOf(moodStats, "mood_trend",
            LAMBDA item : Truthy(item) /\ Prop(item, "avg_mood") # Null,
            LAMBDA item :
                [x |-> Or(Prop(item, "date"), Str(<<"U", "n", "k", "n", "o", "w", "n">>)),
                 y |-> NumberOr(Prop(item, "avg_mood"), Num(0))])

moodDistributionData(moodStats) ==
    ChartOf(moodStats, "mood_distribution",
            LAMBDA item : /\ Truthy(item)
                          /\ Prop(item, "mood_score") # Undefined
                          /\ Prop(item, "count") # Undefined,
            LAMBDA item :
                [x |-> IF Prop(item, "mood_score") = Null
                         THEN Str(<<"0">>)
                         ELSE Or(NumberToString(Prop(item, "mood_score")),
                                 Str(<<"0">>)),
                 y |-> NumberOr(Prop(item, "count"), Num(0))])

sleepMoodData(moodStats) ==
    ChartOf(moodStats, "sleep_mood_correlation",
            LAMBDA item : /\ Truthy(item)
                          /\ Prop(item, "sleep_hours") # Undefined
                          /\ Prop(item, "avg_mood") # Null,
            LAMBDA item :
                [x |-> NumberOr(Prop(item, "sleep_hours"), Num(0)),
                 y |-> NumberOr(Prop(item, "avg_mood"), Num(0))])

entriesByDateData(journalStats) ==
    ChartOf(journalStats, "entries_by_date",
            LAMBDA item : /\ Truthy(item) /\ Truthy(Prop(item, "date"))
                          /\ Prop(item, "entry_count") # Undefined,
            LAMBDA item :
                [x |-> Prop(item, "date"),
                 y |-> NumberOr(Prop(item, "entry_count"), Num(0))])

tagFrequencyData(journalStats) ==
    IF Prop(journalStats, "tag_frequency").t = "arr"
      THEN LET kept == SelectSeq(Prop(journalStats, "tag_frequency").a,
                         LAMBDA tag : /\ Truthy(tag) /\ Truthy(Prop(tag, "tag"))
                                      /\ Prop(tag, "count") # Undefined)
               top == SubSeq(kept, 1, IF Len(kept) < TopTags THEN Len(kept)
                                                             ELSE TopTags)
           IN  [i \in 1..Len(top) |->
                  [x |-> Prop(top[i], "tag"),
                   y |-> NumberOr(Prop(top[i], "count"), Num(0))]]
      ELSE <<>>

journalMoodData(journalStats) ==
    ChartOf(journalStats, "journal_mood_correlation",
            LAMBDA item : /\ Truthy(item) /\ Truthy(Prop(item, "date"))
                          /\ Prop(item, "avg_mood") # Null
                          /\ Prop(item, "journal_count") # Undefined,
            LAMBDA item :
                [x |-> Prop(item, "date"),
                 y |-> NumberOr(Prop(item, "avg_mood"), Num(0)),
                 size |-> LET n == NumberOr(Prop(item, "journal_count"), Num(1))
                          IN  IF n.t = "nan" THEN NaN ELSE Num(n.n * 3)])

\* the list a chart reads, and the fields of its records: a name and numbers
ChartSource(chart) ==
    CASE chart = "categoryData" ->
           [key |-> "points_distribution", name |-> "category",
            numbers |-> {"points", "percentage"}]
      [] chart = "hoursByDayData" ->
           [key |-> "hour_distribution", name |-> "day", numbers |-> {"hours"}]
      [] chart = "activityTrendData" ->
           [key |-> "time_periods", name |-> "period",
            numbers |-> {"activity_count"}]
      [] chart = "moodTrendData" ->
           [key |-> "mood_trend", name |-> "date", numbers |-> {"avg_mood"}]
      [] chart = "moodDistributionData" ->
           [key |-> "mood_distribution", name |-> "date",
            numbers |-> {"mood_score", "count"}]
      [] chart = "sleepMoodData" ->
           [key |-> "sleep_mood_correlation", name |-> "date",
            numbers |-> {"sleep_hours", "avg_mood"}]
      [] chart = "entriesByDateData" ->
           [key |-> "entries_by_date", name |-> "date",
            numbers |-> {"entry_count"}]
      [] chart = "tagFrequencyData" ->
           [key |-> "tag_frequency", name |-> "tag", numbers |-> {"count"}]
      [] chart = "journalMoodData" ->
           [key |-> "journal_mood_correlation", name |-> "date",
            numbers |-> {"avg_mood", "journal_count"}]

AnalyticsCharts ==
    {"categoryData", "hoursByDayData", "activityTrendData", "moodTrendData",
     "moodDistributionData", "sleepMoodData", "entriesByDateData",
     "tagFrequencyData", "journalMoodData"}

Monday == <<"M", "o", "n", "d", "a", "y">>

\* the records an aggregate list can hold; an undefined field is left out
AggregateItems(chart) ==
    LET src == ChartSource(chart)
        keys == src.numbers \cup {src.name}
        fills == {f \in [keys -> FieldValues \cup {S(Monday)}] :
                    /\ f[src.name] \in {Undefined, S(Monday)}
                    /\ \A k \in src.numbers : f[k] \in FieldValues}
    IN  {Obj([k \in {j \in keys : f[j] # Undefined} |-> f[k]]) : f \in fills}

\* the calls with lists of at most `longest` records
AnalyticsChartCalls(longest) ==
    UNION {
      {[chart |-> c, stats |-> Obj(<<>>)]} \cup
      {[chart |-> c, stats |-> Obj((ChartSource(c).key :> Arr(l)))] :
          l \in UNION {[1..n -> AggregateItems(c)] : n \in 0..longest}}
      : c \in AnalyticsCharts}

\* The chart's data is prepared.
AnalyticsChartPrepared ==
    /\ input # Null /\ output = Null
    /\ output' = Arr(
         CASE input.chart = "categoryData" -> categoryData(input.stats)
           [] input.chart = "hoursByDayData" -> hoursByDayData(input.stats)
           [] input.chart = "activityTrendData" -> activityTrendData(input.stats)
           [] input.chart = "moodTrendData" -> moodTrendData(input.stats)
           [] input.chart = "moodDistributionData" ->
                moodDistributionData(input.stats)
           [] input.chart = "sleepMoodData" -> sleepMoodData(input.stats)
           [] input.chart = "entriesByDateData" -> entriesByDateData(input.stats)
           [] input.chart = "tagFrequencyData" -> tagFrequencyData(input.stats)
           [] input.chart = "journalMoodData" -> journalMoodData(input.stats))
    /\ UNCHANGED <<input, rendered, timeoutVars, retryVars, cacheVars, listVars, normVars,
                   screenVars, syncVars, now>>

-----------------------------------------------------------------------------
(* fetchWithTimeout, src/services/apiConfig.ts:79-133 *)

MaxTimeout == 3     \* longest timeout argument tried (clock steps)

\* new Error(`Request to ${url} timed out after ${timeout}ms`)
TimedOutError(url, timeout) ==
    [t |-> "error", message |-> "timed out", url |-> url, timeout |-> timeout]

\* new Error(`Network error when fetching ${url}: ${error.message}`)
NetworkError(url) == [t |-> "error", message |-> "Network error", url |-> url]

ThrownError(e) == [kind |-> "throw", error |-> e]

\* (a clearTimeout that leaves the timer armed)
ClearTimeoutNoop(timer) == timer
\* clearTimeout(timeoutId): a timer still armed never fires
ClearTimeout(timer) ==
    IF timer.state = "armed" THEN [timer EXCEPT !.state = "cleared"] ELSE timer

FetchCallsWithTimeout ==
    {[url |-> u, timeout |-> ms] :
        u \in {"/activities", "/analytics/activity"}, ms \in 1..MaxTimeout}

\* fetchWithTimeout(url, options, timeout) runs up to its await: the
\* controller is made, the timer set and the fetch started.
fetchWithTimeoutCall ==
    /\ input # Null /\ request = "none"
    /\ controller' = [aborted |-> FALSE]
    /\ timeoutId' = [state |-> "armed", due |-> now + input.timeout]
    /\ request' = "pending"
    /\ UNCHANGED <<input, rendered, output, retryVars, cacheVars, listVars, normVars,
                   screenVars, syncVars, now>>

\* The fetch resolves with a response, of whatever status; the function
\* clears the timer and returns it.
FetchFulfils(status) ==
    /\ request = "pending"
    /\ request' = "fulfilled"
    /\ timeoutId' = ClearTimeout(timeoutId)
    /\ output' = Returned([status |-> status])
    /\ UNCHANGED <<input, rendered, controller, retryVars, cacheVars, listVars, normVars,
                   screenVars, syncVars, now>>

\* The fetch rejects by itself; the catch clears the timer and throws the
\* network error.
FetchFails ==
    /\ request = "pending"
    /\ request' = "rejected"
    /\ timeoutId' = ClearTimeout(timeoutId)
    /\ output' = ThrownError(NetworkError(input.url))
    /\ UNCHANGED <<input, rendered, controller, retryVars, cacheVars, listVars, normVars,
                   screenVars, syncVars, now>>

\* The timer fires: controller.abort(). A fetch still pending rejects with an
\* AbortError, which the catch turns into the timed-out error.
TimeoutFires ==
    /\ timeoutId.state = "armed" /\ now >= timeoutId.due
    /\ timeoutId' = [timeoutId EXCEPT !.state = "fired"]
    /\ controller' = [aborted |-> TRUE]
    /\ IF request = "pending"
         THEN /\ request' = "aborted"
              /\ output' = ThrownError(TimedOutError(input.url, input.timeout))
         ELSE UNCHANGED <<request, output>>
    /\ UNCHANGED <<input, rendered, retryVars, cacheVars, listVars, normVars,
                   screenVars, syncVars, now>>

\* A clock step; a timer that is due fires before the clock moves on.
TimeoutTick ==
    /\ now < MaxClock
    /\ ~(timeoutId.state = "armed" /\ now >= timeoutId.due)
    /\ now' = now + 1
    /\ UNCHANGED <<callVars, retryVars, cacheVars, listVars, normVars,
                   screenVars, syncVars>>

-----------------------------------------------------------------------------
(* The shop screen, src/unnamed/part_000, and purchaseReward,             *)
(* src/services/points-api.ts:174-205                                      *)

\* purchaseReward, given what its POST comes to: response.json() of any
\* status, and every error thrown on
purchaseReward(net) ==
    IF net.kind = "none" THEN Thrown
    ELSE LET r == JsonParse(net.text) IN
      IF r.ok THEN Returned(r.v) ELSE Thrown

\* newTotal of handlePurchase and of directPurchase
NewTotal(path, result) ==
    IF path = "handlePurchase"
      THEN Or(Or(Prop(result, "remaining_points"),
                 Prop(result, "points_remaining")), Num(0))
      ELSE Or(Prop(result, "remaining_points"), Num(0))

\* The rewards on offer (two of the fallback list), the balances, and what
\* /points/purchase may answer: success or not, with the balance under
\* either name or under none.
ShopRewards == {[name |-> "Movie Night", points_cost |-> 300],
                [name |-> "Video Game Time", points_cost |-> 200]}
PurchaseBodies ==
    { Obj([success |-> Bool(ok)] @@ balance) :
        ok \in BOOLEAN,
        balance \in {<<>>} \cup { [k \in {name} |-> Num(n)] :
                                   name \in {"remaining_points", "points_remaining"},
                                   n \in {0, 200} } }
PurchaseCalls ==
    { [path |-> path, totalPoints |-> Num(n), reward |-> reward, net |-> net] :
        path \in {"handlePurchase", "directPurchase"}, n \in {250, 500},
        reward \in ShopRewards,
        net \in {NoResponse}
                \cup { Response(TRUE, CutShort(Stringify(b))) : b \in PurchaseBodies }
                \cup { Response(TRUE, Stringify(b)) : b \in PurchaseBodies } }

\* handlePurchase with its confirmation pressed, or directPurchase, run to
\* the end: the balance shown, the purchases added to the history, and the
\* alert raised.
PurchaseSettles ==
    /\ input # Null /\ output = Null
    /\ LET tried == purchaseReward(input.net)
           kept(alert) == [totalPoints |-> input.totalPoints, added |-> 0,
                           alert |-> alert]
       IN  output' =
             IF input.totalPoints.n < input.reward.points_cost
               THEN kept("Not enough points")
             ELSE IF tried.kind = "throw" THEN kept("Purchase Error")
             ELSE IF Truthy(tried.value) /\ Truthy(Prop(tried.value, "success"))
               THEN [totalPoints |-> NewTotal(input.path, tried.value),
                     added |-> IF input.path = "directPurchase" THEN 1 ELSE 0,
                     alert |-> "Purchase Successful!"]
             ELSE kept("Purchase Failed")
    /\ UNCHANGED <<input, rendered, timeoutVars, retryVars, cacheVars, listVars,
                   normVars, screenVars, syncVars, now>>

-----------------------------------------------------------------------------
(* Specifications *)

RetryInit ==
    /\ maxRetries \in 0..MaxRetries
    /\ delay \in 0..MaxDelay
    /\ failures \in 0..MaxFailures
    /\ RetryIdle
    /\ CacheIdle
    /\ ListIdle
    /\ NormIdle
    /\ ScreenIdle
    /\ CallIdle
    /\ now = 0

RetryNext ==
    \/ WithRetryCall
    \/ FnResolves
    \/ FnRejects
    \/ BackoffElapsed
    \/ RetryTick

SpecRetry == RetryInit /\ [][RetryNext]_vars

\* withRetry(() => createActivity(activity)), the requests of the failing
\* calls coming to every mix of failures.
RetriedCalls(calls) ==
    {[activity |-> a,
      errors |-> [i \in 1..calls |->
                    createActivityError(a, Post(kinds[i], Echo(a)))]] :
        a \in {NapForm, NapRec},
        kinds \in [1..calls -> {"none", "status", "garbled"}]}

RetryErrorsInit ==
    /\ maxRetries \in 0..MaxRetries
    /\ delay = MaxDelay
    /\ failures \in 0..MaxFailures
    /\ RetryIdle
    /\ CacheIdle
    /\ ListIdle
    /\ NormIdle
    /\ ScreenIdle
    /\ input \in RetriedCalls(MaxFailures)
    /\ MissingFields(input.activity) # {} => failures = MaxFailures
    /\ output = Null
    /\ TimeoutIdle /\ RenderIdle
    /\ now = 0

SpecRetryErrors == RetryErrorsInit /\ [][RetryNext]_vars

\* withRetry around a read of the list or around createActivity
RetryReadsInit ==
    /\ input \in ListReads(DefaultMaxRetries) \cup RetriedCalls(DefaultMaxRetries)
    /\ IF "nets" \in DOMAIN input
         THEN /\ maxRetries = input.maxRetries
              /\ failures = LeadingThrows(input, 1)
         ELSE /\ maxRetries = DefaultMaxRetries
              /\ failures \in 0..DefaultMaxRetries
              /\ MissingFields(input.activity) # {} => failures = DefaultMaxRetries
    /\ delay = 1
    /\ RetryIdle
    /\ CacheIdle
    /\ ListIdle
    /\ NormIdle
    /\ ScreenIdle
    /\ output = Null
    /\ TimeoutIdle /\ RenderIdle
    /\ now = 0

SpecRetryReads == RetryReadsInit /\ [][RetryNext]_vars

CacheInit ==
    /\ maxRetries = 0 /\ delay = 0 /\ failures = 0 /\ RetryIdle
    /\ \E s \in PersistedStates : cacheStore = s.store /\ cacheEntry = s.entry
    /\ storageOps = <<>> /\ readPc = "idle" /\ readResult = Undefined
    /\ ticks = 0
    /\ ListIdle
    /\ NormIdle
    /\ ScreenIdle
    /\ CallIdle
    /\ now = 0

CacheNext ==
    \/ \E data \in CacheLists : SaveToCache(data)
    \/ RemoveItem
    \/ StorageOpDone
    \/ StorageOpFails
    \/ GetFromCacheCall
    \/ GetFromCacheReturns
    \/ GetItemFails
    \/ CacheTick

SpecCache == CacheInit /\ [][CacheNext]_vars

MaxListLen == 2     \* longest activities list the filter is tried on

\* The filter as a function of its three inputs: any list, then any query
\* and any filter object.
FilterInit ==
    /\ maxRetries = 0 /\ delay = 0 /\ failures = 0 /\ RetryIdle
    /\ CacheIdle
    /\ activities \in ListsUpTo(MaxListLen)
    /\ searchQuery = <<>> /\ filters = NoFilters
    /\ filteredActivities = Filter(activities, <<>>, NoFilters)
    /\ NormIdle
    /\ ScreenIdle
    /\ CallIdle
    /\ now = 0

FilterNext ==
    \/ \E q \in Queries : SetSearchQuery(q)
    \/ \E F \in FilterSets : SetFilters(F)
    \/ handleClearAll

SpecFilter == FilterInit /\ [][FilterNext]_vars

\* The normalisation map as a function of one fetched record.
NormalizeInit ==
    /\ maxRetries = 0 /\ delay = 0 /\ failures = 0 /\ RetryIdle
    /\ CacheIdle
    /\ ListIdle
    /\ fetchedData \in {<<r>> : r \in CasingRecords \cup RecordPool}
    /\ normalizedData = <<>> /\ passes = 0
    /\ ScreenIdle
    /\ CallIdle
    /\ now = 0

NormalizeNext == NormalizePass

SpecNormalize == NormalizeInit /\ [][NormalizeNext]_vars

\* The screen from its first render on; the focus effect is the first call
\* of loadActivities.
ScreenInit ==
    /\ maxRetries = 0 /\ delay = 0 /\ failures = 0 /\ RetryIdle
    /\ CacheIdle
    /\ ListIdle
    /\ NormIdle
    /\ ScreenIdle
    /\ CallIdle
    /\ now = 0

ScreenNext ==
    \/ loadActivitiesCall
    \/ \E i \in 1..MaxInFlight, data \in FetchResults : loadActivitiesResolves(i, data)
    \/ loadMoreActivitiesCall
    \/ \E i \in 1..MaxInFlight, allData \in FetchResults :
          loadMoreActivitiesResolves(i, allData)
    \/ OpenAddModal
    \/ CloseAddModal
    \/ \E form \in FormActivities : handleAddActivityCall(form)
    \/ \E i \in 1..MaxInFlight, served \in ServedActivities :
          handleAddActivityResolves(i, served)
    \/ \E i \in 1..MaxInFlight : handleAddActivityRejects(i)
    \/ \E k \in {1, Len(filteredActivities)} : handleDeleteActivityCall(k)
    \/ \E i \in 1..MaxInFlight, hasMessage \in BOOLEAN :
          handleDeleteActivityResolves(i, hasMessage)
    \/ \E i \in 1..MaxInFlight : handleDeleteActivityRejects(i)
    \/ \E F \in OfferedFilters : SetFilters(F)

SpecScreen == ScreenInit /\ [][ScreenNext]_vars

\* What the server sends for a further page: nothing, one row, a row it
\* holds twice (a create that was posted twice), or a full page.
MorePages == {<<>>, <<SwimRec>>, <<SwimRec, SwimRec>>, FullPage}

\* The screen paging through the list and adding to it: the list is loaded
\* a page at a time, further pages are asked for, and the form is submitted.
PagingNext ==
    \/ inFlight = <<>> /\ loadActivitiesCall
    \/ \E i \in 1..MaxInFlight, data \in {<<ReadRec, NapRec>>, FullPage} :
          loadActivitiesResolves(i, data)
    \/ loadMoreActivitiesCall
    \/ \E i \in 1..MaxInFlight, allData \in MorePages :
          loadMoreActivitiesResolves(i, allData)
    \/ ~isLoading /\ OpenAddModal
    \/ \E form \in FormActivities : handleAddActivityCall(form)
    \/ \E i \in 1..MaxInFlight, served \in ServedActivities :
          handleAddActivityResolves(i, served)
    \/ \E i \in 1..MaxInFlight : handleAddActivityRejects(i)

SpecPaging == ScreenInit /\ [][PagingNext]_vars

\* The list is loaded and paged through by the callbacks of the last
\* render, which React replaces some time after each state change.
RenderedNext ==
    \/ inFlight = <<>> /\ loadActivitiesCall
    \/ \E i \in 1..MaxInFlight, data \in {<<ReadRec, NapRec>>, FullPage} :
          loadActivitiesResolves(i, data)
    \/ loadMoreActivitiesFires
    \/ \E i \in 1..MaxInFlight, allData \in MorePages :
          loadMoreActivitiesResolves(i, allData)
    \/ Render

SpecRendered == ScreenInit /\ [][RenderedNext]_vars

\* The screen over the API: the server holds two activities, the cache is
\* empty, and the focus effect is about to load the list.
SyncInit ==
    /\ maxRetries = 0 /\ delay = 0 /\ failures = 0 /\ RetryIdle
    /\ CacheIdle
    /\ ListIdle
    /\ NormIdle
    /\ isLoading = TRUE /\ error = Null /\ page = 1 /\ hasMore = TRUE
    /\ isFetchingMore = FALSE
    /\ availableCategories = <<>> /\ availableActivities = <<>>
    /\ availableTags = <<>>
    /\ showAddModal = FALSE
    /\ inFlight = <<>>
    /\ showEditModal = FALSE /\ selectedActivity = Null
    /\ lastAlert = "none"
    /\ server = <<RunRec, ReadRec>> /\ writes = 0
    /\ CallIdle
    /\ now = 0

\* While isLoading is set the loading overlay covers the screen, so the
\* buttons under it are pressed only when it is clear. The user of this
\* specification also waits for pending calls before the next gesture, and
\* makes none after the last write has been sent; the forms in the modals
\* can be submitted at any time. The clock is read between gestures, half
\* the cache's lifetime from the start, and a fetch settles after the cache
\* writes before it.
Quiet == inFlight = <<>> /\ WritesSent < MaxWrites
Pressable == ~isLoading /\ Quiet

SyncNext ==
    \/ Quiet /\ loadActivitiesCall
    \/ \E i \in 1..MaxInFlight : getEventDataServed(i)
    \/ \E i \in 1..MaxInFlight : \E net \in GetOutcomes(RowsServed(i)) :
          storageOps = <<>> /\ fetchActivitiesSettles(i, net)
    \/ \E i \in 1..MaxInFlight :
          Replied(i) /\ inFlight[i].op = "load"
          /\ loadActivitiesResolves(i, inFlight[i].reply.data.a)
    \/ Pressable /\ OpenAddModal
    \/ CloseAddModal
    \/ \E form \in FormActivities :
          WritesSent < MaxWrites /\ handleAddActivityCall(form)
    \/ \E i \in 1..MaxInFlight, kind \in PostKinds, echoed \in BOOLEAN :
          createActivityAttempt(i, kind, echoed)
    \/ \E i \in 1..MaxInFlight :
          Resolved(i, "add")
          /\ handleAddActivityResolves(i, inFlight[i].reply.value)
    \/ \E i \in 1..MaxInFlight :
          Rejected(i, "add") /\ handleAddActivityRejects(i)
    \/ \E k \in 1..MaxListLen :
          Pressable /\ WritesSent < MaxWrites /\ handleDeleteActivityCall(k)
    \/ \E i \in 1..MaxInFlight, kind \in PostKinds, hasMessage \in BOOLEAN :
          deleteActivityAttempt(i, kind, hasMessage)
    \/ \E i \in 1..MaxInFlight :
          Resolved(i, "delete")
          /\ handleDeleteActivityResolves(i,
                Truthy(Prop(inFlight[i].reply.value, "message")))
    \/ \E i \in 1..MaxInFlight :
          Rejected(i, "delete") /\ handleDeleteActivityRejects(i)
    \/ \E k \in 1..MaxListLen : Pressable /\ OpenEditModal(k)
    \/ CloseEditModal
    \/ \E updatedActivity \in EditForms :
          WritesSent < MaxWrites /\ handleUpdateActivityCall(updatedActivity)
    \/ \E i \in 1..MaxInFlight, kind \in PostKinds :
          updateActivityAttempt(i, [f \in {"Points"} |-> kind])
    \/ \E i \in 1..MaxInFlight :
          Resolved(i, "update")
          /\ handleUpdateActivityResolves(i)
    \/ \E i \in 1..MaxInFlight :
          Rejected(i, "update") /\ handleUpdateActivityRejects(i)
    \/ StorageOpDone
    \/ Quiet /\ ticks = 0 /\ CacheTick /\ now' = now + CACHE_EXPIRY \div 2

SpecSync == SyncInit /\ [][SyncNext]_vars

\* One submission of the add form over the API, where a request the server
\* has acted on may also come back without a usable response.
SubmitNext ==
    \/ Quiet /\ loadActivitiesCall
    \/ \E i \in 1..MaxInFlight : \E net \in GetOutcomes(server) :
          storageOps = <<>> /\ fetchActivitiesSettles(i, net)
    \/ \E i \in 1..MaxInFlight :
          Replied(i) /\ inFlight[i].op = "load"
          /\ loadActivitiesResolves(i, inFlight[i].reply.data.a)
    \/ Pressable /\ OpenAddModal
    \/ \E form \in FormActivities :
          WritesSent < MaxWrites /\ handleAddActivityCall(form)
    \/ \E i \in 1..MaxInFlight, kind \in PostKinds \cup LostKinds,
          echoed \in BOOLEAN :
          createActivityAttempt(i, kind, echoed)
    \/ \E i \in 1..MaxInFlight :
          Resolved(i, "add")
          /\ handleAddActivityResolves(i, inFlight[i].reply.value)
    \/ \E i \in 1..MaxInFlight :
          Rejected(i, "add") /\ handleAddActivityRejects(i)
    \/ StorageOpDone

SpecSubmit == SyncInit /\ [][SubmitNext]_vars

\* What the program does by itself once a request or a storage call has
\* settled: every step of SyncNext that is not a gesture or the clock.
SyncSettles ==
    \/ \E i \in 1..MaxInFlight : \E net \in GetOutcomes(RowsServed(i)) :
          storageOps = <<>> /\ fetchActivitiesSettles(i, net)
    \/ \E i \in 1..MaxInFlight :
          Replied(i) /\ inFlight[i].op = "load"
          /\ loadActivitiesResolves(i, inFlight[i].reply.data.a)
    \/ \E i \in 1..MaxInFlight, kind \in PostKinds, echoed \in BOOLEAN :
          createActivityAttempt(i, kind, echoed)
    \/ \E i \in 1..MaxInFlight :
          Resolved(i, "add")
          /\ handleAddActivityResolves(i, inFlight[i].reply.value)
    \/ \E i \in 1..MaxInFlight :
          Rejected(i, "add") /\ handleAddActivityRejects(i)
    \/ \E i \in 1..MaxInFlight, kind \in PostKinds, hasMessage \in BOOLEAN :
          deleteActivityAttempt(i, kind, hasMessage)
    \/ \E i \in 1..MaxInFlight :
          Resolved(i, "delete")
          /\ handleDeleteActivityResolves(i,
                Truthy(Prop(inFlight[i].reply.value, "message")))
    \/ \E i \in 1..MaxInFlight :
          Rejected(i, "delete") /\ handleDeleteActivityRejects(i)
    \/ \E i \in 1..MaxInFlight, kind \in PostKinds :
          updateActivityAttempt(i, [f \in {"Points"} |-> kind])
    \/ \E i \in 1..MaxInFlight :
          Resolved(i, "update")
          /\ handleUpdateActivityResolves(i)
    \/ \E i \in 1..MaxInFlight :
          Rejected(i, "update") /\ handleUpdateActivityRejects(i)
    \/ StorageOpDone

\* a request, a continuation or a storage call is outstanding
Pending == inFlight # <<>> \/ storageOps # <<>>

\* Every request and every storage call settles in the end, and the event
\* loop runs what waits for it: while something is outstanding, a step of
\* SyncSettles is taken sooner or later.
SpecSyncLive ==
    SpecSync /\ ([]<>(~Pending) \/ []<><<SyncSettles>>_vars)

\* One call of a read path, for every function and every outcome of its
\* request.
ReadInit ==
    /\ maxRetries = 0 /\ delay = 0 /\ failures = 0 /\ RetryIdle
    /\ CacheIdle
    /\ ListIdle
    /\ NormIdle
    /\ ScreenIdle
    /\ input \in StatsCalls \cup FetchCalls
    /\ output = Null
    /\ TimeoutIdle /\ RenderIdle
    /\ now = 0

ReadNext == ReadSettles

SpecRead == ReadInit /\ [][ReadNext]_vars

\* One call of fetchActivities over what the cache holds, with the storage
\* call it may leave behind.
FrameInit ==
    /\ maxRetries = 0 /\ delay = 0 /\ failures = 0 /\ RetryIdle
    /\ input \in FrameCalls
    /\ cacheStore = input.item /\ cacheEntry = input.entry
    /\ storageOps = <<>> /\ readPc = "idle" /\ readResult = Undefined
    /\ ticks = 0
    /\ ListIdle
    /\ NormIdle
    /\ ScreenIdle
    /\ output = Null
    /\ TimeoutIdle /\ RenderIdle
    /\ now = 0

\* ... and one call for every page asked for
PageInit ==
    /\ maxRetries = 0 /\ delay = 0 /\ failures = 0 /\ RetryIdle
    /\ input \in PageCalls
    /\ cacheStore = input.item /\ cacheEntry = input.entry
    /\ storageOps = <<>> /\ readPc = "idle" /\ readResult = Undefined
    /\ ticks = 0
    /\ ListIdle
    /\ NormIdle
    /\ ScreenIdle
    /\ output = Null
    /\ TimeoutIdle /\ RenderIdle
    /\ now = 0

FrameNext ==
    \/ fetchActivitiesRuns
    \/ StorageOpDone
    \/ StorageOpFails

SpecFrame == FrameInit /\ [][FrameNext]_vars
SpecPage == PageInit /\ [][FrameNext]_vars

\* One chart of the mood screen, for every list of logs.
MoodChartInit ==
    /\ maxRetries = 0 /\ delay = 0 /\ failures = 0 /\ RetryIdle
    /\ CacheIdle
    /\ ListIdle
    /\ NormIdle
    /\ ScreenIdle
    /\ input \in MoodChartCalls(MaxLogs)
    /\ output = Null
    /\ TimeoutIdle /\ RenderIdle
    /\ now = 0

MoodChartNext == MoodChartPrepared

SpecMoodChart == MoodChartInit /\ [][MoodChartNext]_vars

\* One chart of the analytics screen, for every aggregate list.
AnalyticsChartInit ==
    /\ maxRetries = 0 /\ delay = 0 /\ failures = 0 /\ RetryIdle
    /\ CacheIdle
    /\ ListIdle
    /\ NormIdle
    /\ ScreenIdle
    /\ input \in AnalyticsChartCalls(MaxItems)
    /\ output = Null
    /\ TimeoutIdle /\ RenderIdle
    /\ now = 0

AnalyticsChartNext == AnalyticsChartPrepared

SpecAnalyticsChart == AnalyticsChartInit /\ [][AnalyticsChartNext]_vars

\* One call of fetchWithTimeout and the clock.
TimeoutInit ==
    /\ maxRetries = 0 /\ delay = 0 /\ failures = 0 /\ RetryIdle
    /\ CacheIdle
    /\ ListIdle
    /\ NormIdle
    /\ ScreenIdle
    /\ input \in FetchCallsWithTimeout
    /\ output = Null
    /\ TimeoutIdle /\ RenderIdle
    /\ now = 0

TimeoutNext ==
    \/ fetchWithTimeoutCall
    \/ \E status \in {200, 500} : FetchFulfils(status)
    \/ FetchFails
    \/ TimeoutFires
    \/ TimeoutTick

SpecTimeout == TimeoutInit /\ [][TimeoutNext]_vars

\* One purchase on the shop screen, for every answer of the server.
ShopInit ==
    /\ maxRetries = 0 /\ delay = 0 /\ failures = 0 /\ RetryIdle
    /\ CacheIdle
    /\ ListIdle
    /\ NormIdle
    /\ ScreenIdle
    /\ input \in PurchaseCalls
    /\ output = Null
    /\ TimeoutIdle /\ RenderIdle
    /\ now = 0

ShopNext == PurchaseSettles

SpecShop == ShopInit /\ [][ShopNext]_vars

-----------------------------------------------------------------------------
(* Claims about withRetry *)

Settled == rpc \in {"resolved", "rejected"}

\* C1: when fn rejects on its first k calls and resolves on call k+1, and
\* maxRetries >= k+1, withRetry resolves with that call's value, fn has been
\* invoked exactly k+1 times, and it is never invoked more than k+1 times.
C1_ResolvesAfterKFailures ==
    maxRetries >= failures + 1 =>
        /\ fnCalls <= failures + 1
        /\ rpc # "rejected"
        /\ Settled => /\ outcome = [kind |-> "resolved",
                                    value |-> ValueOf(failures + 1)]
                      /\ fnCalls = failures + 1

C1_Witness ==
    /\ rpc = "resolved" /\ failures = 2 /\ fnCalls = 3
    /\ outcome.value = ValueOf(3)

\* C2 as stated: for every maxRetries <= k, withRetry rejects with the error
\* thrown by the last invocation of fn it made, after exactly maxRetries
\* invocations.
C2_AsStated ==
    (maxRetries <= failures /\ Settled) =>
        /\ fnCalls = maxRetries
        /\ \E i \in 1..fnCalls :
              /\ i = fnCalls
              /\ outcome = [kind |-> "rejected", value |-> ErrorOf(i)]

\* C2 amended: for 1 <= maxRetries <= k, withRetry rejects with the error of
\* fn's maxRetries-th (last) invocation after exactly maxRetries invocations;
\* for maxRetries = 0, fn is never invoked and withRetry rejects with
\* undefined (lastError is never assigned).
C2_RejectsWithLastError ==
    (maxRetries <= failures /\ Settled) =>
        /\ fnCalls = maxRetries
        /\ outcome.kind = "rejected"
        /\ maxRetries >= 1 => outcome.value = ErrorOf(maxRetries)
        /\ maxRetries = 0 => outcome.value = Undefined

C2_Witness ==
    /\ rpc = "rejected" /\ maxRetries = 3 /\ failures = 3 /\ fnCalls = 3
    /\ outcome.value = ErrorOf(3)

\* C3: after the a-th failed attempt with a < maxRetries, a timeout of
\* delay * 2^(a-1) is requested and the next invocation of fn starts no
\* earlier than that long after the failure; after the maxRetries-th failed
\* attempt no timeout is requested and the error is thrown at once.
C3_ExponentialBackoff ==
    /\ \A a \in 1..Len(failAt) :
          a < maxRetries =>
            /\ Len(waits) >= a
            /\ waits[a] = delay * Pow2(a - 1)
            /\ Len(callAt) >= a + 1 =>
                  callAt[a + 1] >= failAt[a] + delay * Pow2(a - 1)
    /\ Len(waits) < maxRetries \/ (maxRetries = 0 /\ waits = <<>>)
    /\ (maxRetries >= 1 /\ Len(failAt) >= maxRetries) =>
          /\ rpc = "rejected"
          /\ doneAt = failAt[maxRetries]
          /\ Len(waits) = maxRetries - 1

C3_Witness ==
    /\ rpc = "rejected" /\ maxRetries = 4 /\ delay = 1
    /\ waits = <<1, 2, 4>>
    /\ callAt[2] = failAt[1] + 1 /\ callAt[3] = failAt[2] + 2
    /\ callAt[4] = failAt[3] + 4 /\ doneAt = failAt[4]

-----------------------------------------------------------------------------
(* Claims about the activity cache *)

\* C4: a getFromCache call whose getItem returns yields the stored activity
\* list if and only if an entry exists under the key and now - timestamp is
\* strictly below 60000 ms; with an older entry, no entry, or a text that
\* does not parse, it yields null.
C4_HitIffEntryYoungerThanHalfExpiry ==
    [][GetFromCacheReturns =>
         /\ (readResult' # Null) <=>
               (cacheEntry.kind = "entry" /\ now - cacheEntry.ts < 60000)
         /\ (readResult' # Null) => readResult' = cacheEntry.data]_vars

C4_Witness ==
    /\ readPc = "done" /\ readResult = Null /\ storageOps = <<>>
    /\ cacheEntry.kind = "entry" /\ now - cacheEntry.ts = 60000

\* C5: once saveToCache's write of list P with timestamp t is the stored
\* entry, a read within the validity window (CACHE_EXPIRY/2 after t) returns
\* a list with P's length and P's elements in P's order, and a read at or
\* after the end of the window returns null.
C5_CacheRoundTrip ==
    [][(GetFromCacheReturns /\ cacheEntry.kind = "entry") =>
         IF now - cacheEntry.ts < CACHE_EXPIRY \div 2
           THEN /\ readResult'.t = "arr"
                /\ Len(readResult'.a) = Len(cacheEntry.data.a)
                /\ \A i \in 1..Len(cacheEntry.data.a) :
                      readResult'.a[i] = cacheEntry.data.a[i]
           ELSE readResult' = Null]_vars

C5_Witness ==
    /\ readPc = "done" /\ storageOps = <<>>
    /\ readResult = Arr(<<RunRecord, ReadRecord>>)
    /\ cacheEntry.kind = "entry" /\ cacheEntry.data = readResult
    /\ cacheEntry.ts > 0
    /\ now - cacheEntry.ts = CACHE_EXPIRY \div 2 - 1

-----------------------------------------------------------------------------
(* Claims about filteredActivities *)

FieldOf(a, upper, lower) == Or(Prop(a, upper), Prop(a, lower))
HasNameAndCategory(a) ==
    Truthy(FieldOf(a, "Activity", "activity")) /\ Truthy(FieldOf(a, "Category", "category"))
IsSelection(F, k) == k \in DOMAIN F /\ F[k] # <<>>
HasBound(F, k) ==
    "dateRange" \in DOMAIN F /\ k \in DOMAIN F["dateRange"] /\ F["dateRange"][k] # <<>>
TagsOf(a) ==
    LET tags == FieldOf(a, "Tags", "tags") IN
    IF ~Truthy(tags) THEN {}
    ELSE {Trim(Split(tags.s, ",")[i]) : i \in 1..Len(Split(tags.s, ","))}
DayOf(a) == NewDate(FieldOf(a, "Date", "date").s).day
PointsOf(a) ==
    LET pts == FieldOf(a, "Points", "points") IN IF Truthy(pts) THEN pts.n ELSE 0
TextOf(a, upper, lower) ==
    LET v == FieldOf(a, upper, lower) IN IF Truthy(v) THEN ToLowerCase(v.s) ELSE <<>>

InCategories(a, F) ==
    IsSelection(F, "categories") =>
        \E i \in 1..Len(F["categories"]) :
            FieldOf(a, "Category", "category") = Str(F["categories"][i])
InActivities(a, F) ==
    IsSelection(F, "activities") =>
        \E i \in 1..Len(F["activities"]) :
            FieldOf(a, "Activity", "activity") = Str(F["activities"][i])
HasSelectedTag(a, F) ==
    IsSelection(F, "tags") =>
        \E i \in 1..Len(F["tags"]) : F["tags"][i] \in TagsOf(a)
NotBeforeStart(a, F) ==
    HasBound(F, "startDate") =>
        /\ Truthy(FieldOf(a, "Date", "date"))
        /\ DayOf(a) >= NewDate(F["dateRange"]["startDate"]).day
NotAfterEnd(a, F) ==
    HasBound(F, "endDate") =>
        /\ Truthy(FieldOf(a, "Date", "date"))
        /\ DayOf(a) <= NewDate(F["dateRange"]["endDate"]).day
HasMinPoints(a, F) ==
    "minPoints" \in DOMAIN F => PointsOf(a) >= F["minPoints"]
MatchesText(a, q) ==
    q # <<>> =>
        \E field \in {<<"Activity", "activity">>, <<"Category", "category">>,
                      <<"Tags", "tags">>, <<"Notes", "notes">>} :
            StrIncludes(TextOf(a, field[1], field[2]), ToLowerCase(q))

SatisfiesAll(a, q, F) ==
    /\ InCategories(a, F) /\ InActivities(a, F) /\ HasSelectedTag(a, F)
    /\ NotBeforeStart(a, F) /\ NotAfterEnd(a, F) /\ HasMinPoints(a, F)
    /\ MatchesText(a, q)

\* C6: every element of filteredActivities satisfies every predicate set in
\* the filters - category selected, name selected, one of its tags selected,
\* date not before startDate and not after the end of endDate, points at
\* least minPoints - and matches the query in name, category, tags or notes.
C6_FilterSound ==
    \A i \in 1..Len(filteredActivities) :
        LET a == filteredActivities[i] IN
        /\ InCategories(a, filters) /\ InActivities(a, filters)
        /\ HasSelectedTag(a, filters)
        /\ NotBeforeStart(a, filters) /\ NotAfterEnd(a, filters)
        /\ HasMinPoints(a, filters)
        /\ MatchesText(a, searchQuery)

\* C7 as stated: with no filters and an empty query, filteredActivities is
\* the whole activities list, in order.
C7_AsStated ==
    (filters = NoFilters /\ searchQuery = <<>>) => filteredActivities = activities

\* C7 amended: with no filters and an empty query, filteredActivities holds,
\* in the same order, exactly the elements of activities that have a
\* non-empty name and a non-empty category; the others are dropped.
C7_EmptyFilterKeepsNamedActivities ==
    (filters = NoFilters /\ searchQuery = <<>>) =>
        filteredActivities = SelectSeq(activities, HasNameAndCategory)

C7_Witness ==
    /\ filters = NoFilters /\ searchQuery = <<>>
    /\ activities = <<SwimRec, NapRec>>
    /\ filteredActivities = <<SwimRec>>

\* C8: among the activities that carry a name and a category, an activity is
\* in filteredActivities exactly when it satisfies every set dimension and
\* the query (any one selected value sufficing within a dimension), and
\* filteredActivities lists them in the order of activities, once each.
C8_FilterExact ==
    filteredActivities =
        SelectSeq(SelectSeq(activities, HasNameAndCategory),
                  LAMBDA a : SatisfiesAll(a, searchQuery, filters))

-----------------------------------------------------------------------------
(* Claims about the order of the activities list *)

HasDate(a) == Truthy(FieldOf(a, "Date", "date"))
StartOf(a) ==
    LET v == FieldOf(a, "Start_Time", "start_time") IN
    IF Truthy(v) THEN v.s ELSE <<>>

\* C9: after any sequence of loadActivities, loadMoreActivities and
\* optimistic add and delete operations, the activities state is ordered by
\* the record's date descending, and elements sharing a date are ordered by
\* start time ascending in lexicographic string order.  The record's date
\* and start time are read as the filter and the cards read them, under
\* either casing of the field name.
C9_SortedByDateThenStartTime ==
    \A i, j \in 1..Len(activities) :
        (i < j /\ HasDate(activities[i]) /\ HasDate(activities[j])) =>
            /\ DayOf(activities[i]) >= DayOf(activities[j])
            /\ DayOf(activities[i]) = DayOf(activities[j]) =>
                  StrCompare(StartOf(activities[i]), StartOf(activities[j])) <= 0

-----------------------------------------------------------------------------
(* Claims about the normalisation map *)

\* C10: applying the normalisation map to an already normalised record
\* yields a record with the same set of keys and the same value under every
\* key, whichever casing the server record used.
C10_NormalizeIdempotent ==
    [][(passes >= 1 /\ passes' = passes + 1) =>
         \A i \in 1..Len(normalizedData) :
            /\ DOMAIN normalizedData'[i].o = DOMAIN normalizedData[i].o
            /\ \A k \in DOMAIN normalizedData[i].o :
                  normalizedData'[i].o[k] = normalizedData[i].o[k]]_vars

C10_Witness ==
    /\ passes = 2 /\ fetchedData = <<SwimRec>>
    /\ normalizedData[1].o["Activity"] = S(Swim)
    /\ normalizedData[1].o["activity"] = S(Swim)
    /\ normalizedData[1].o["Notes"] = Undefined

\* The eight fields the normalisation map merges, as (upper, lower) names.
FieldPairs ==
    { <<"Activity", "activity">>, <<"Category", "category">>,
      <<"Date", "date">>, <<"Start_Time", "start_time">>,
      <<"End_Time", "end_time">>, <<"Notes", "notes">>,
      <<"Points", "points">>, <<"Tags", "tags">> }

\* the non-empty values a record carries for a field, under either name
Carried(item, pair) ==
    {v \in {Prop(item, pair[1]), Prop(item, pair[2])} : Truthy(v)}

\* C11: for every server record and every one of the eight fields, if the
\* record carries a non-empty value under the upper-case or the lower-case
\* name, the normalised record exposes such a value under both names.
C11_NormalizeMergesBothCasings ==
    passes >= 1 =>
        \A i \in 1..Len(fetchedData) : \A pair \in FieldPairs :
            Carried(fetchedData[i], pair) # {} =>
                /\ Prop(normalizedData[i], pair[1]) \in Carried(fetchedData[i], pair)
                /\ Prop(normalizedData[i], pair[2]) \in Carried(fetchedData[i], pair)

-----------------------------------------------------------------------------
(* Claims about the reload after a write *)

\* The reload at position i was started by handleDeleteActivity or
\* handleUpdateActivity, the two callers of loadActivities() without an
\* argument, and fetchActivities has settled for it.
FollowUpReloadSettled(i) ==
    /\ i \in 1..Len(inFlight) /\ inFlight[i].op = "load"
    /\ ~inFlight[i].forceRefresh
    /\ "reply" \in DOMAIN inFlight[i]

\* C12: after a delete or an update has succeeded, the follow-up reload
\* obtains its list by a GET request to the server, not from the local cache.
C12_ReloadAfterWriteAsksServer ==
    \A i \in 1..MaxInFlight :
        FollowUpReloadSettled(i) => inFlight[i].reply.requested

-----------------------------------------------------------------------------
(* Claims about the errors of the read and write paths *)

ReadSettled == "net" \in DOMAIN input /\ output # Null

\* the parsed body of the response the call received
BodyReceived == JsonParse(input.net.text).v

\* the body has what the function looks for: an array for the timeline and
\* for fetchActivities (or an object wrapping one as `activities`), an object
\* with a truthy summary key for the others
HasExpectedTop(fn, body) ==
    CASE fn = "getActivityTimeline" -> body.t = "arr"
      [] fn = "fetchActivities" -> body.t = "obj" /\ "activities" \in DOMAIN body.o
      [] fn = "getDashboardSummary" ->
            body.t = "obj" /\ "activity_summary" \in DOMAIN body.o
            /\ Truthy(body.o["activity_summary"])
      [] OTHER -> body.t = "obj" /\ "totals" \in DOMAIN body.o
                  /\ Truthy(body.o["totals"])

\* the entry the cache holds is younger than half of CACHE_EXPIRY
CachedFresh ==
    input.entry.kind = "entry" /\ now - input.entry.ts < CACHE_EXPIRY \div 2

\* what the call falls back to when its request fails
FallbackFor(call) ==
    IF call.fn = "fetchActivities"
      THEN IF CachedFresh THEN call.entry.data ELSE Arr(<<TestRec>>)
      ELSE Fallback(call.fn)

\* (C13 as stated: under each of the four failure classes the call resolves
\* with its fallback value)
C13_AsStated ==
    (ReadSettled /\ input.class # "none") =>
        /\ output.state = "resolved"
        /\ output.value \in {FallbackFor(input)} \cup
                            (IF input.fn = "fetchActivities" THEN {None} ELSE {})

\* C13: a read path never rejects. Under a network failure, a non-2xx
\* status or a body that does not parse it resolves with its fallback value
\* (for fetchActivities the fresh cached list, else the test list). Under a
\* shape mismatch it resolves with the fallback (fetchActivities: the fresh
\* cached list when not forced, else the empty list) only when the body lacks
\* what the function looks for; a body that has it is passed through, or
\* unwrapped by fetchActivities, whatever else it lacks.
C13_ReadPathsNeverReject ==
    ReadSettled =>
        /\ output.state = "resolved"
        /\ input.class \in {"network", "status", "parse"} =>
              output.value = FallbackFor(input)
        /\ input.class = "shape" =>
              IF input.fn = "fetchActivities"
                THEN output.value =
                       IF ~input.forceRefresh /\ CachedFresh THEN input.entry.data
                       ELSE IF HasExpectedTop(input.fn, BodyReceived)
                              THEN BodyReceived.o["activities"]
                       ELSE None
                ELSE output.value =
                       IF HasExpectedTop(input.fn, BodyReceived) THEN BodyReceived
                       ELSE Fallback(input.fn)

C13_Witness ==
    /\ ReadSettled
    /\ input.fn = "getDashboardSummary" /\ input.class = "shape"
    /\ output.state = "resolved" /\ output.value = DashboardSummaryFallback

WriteOps == {"add", "update", "delete"}

\* The write at position i of inFlight has settled.
WriteSettled(i) ==
    /\ i \in 1..Len(inFlight) /\ inFlight[i].op \in WriteOps
    /\ "reply" \in DOMAIN inFlight[i]

\* attempts of the call that failed before the one that settled it
FailedBefore(call) == IF "attempt" \in DOMAIN call THEN call.attempt ELSE 0

\* A write resolves only when nothing went wrong with its requests, and
\* rejects only when the last of its DefaultMaxRetries + 1 attempts failed.
WritesRejectOnFailure ==
    \A i \in 1..MaxInFlight :
        WriteSettled(i) =>
            /\ inFlight[i].reply.ok <=> inFlight[i].reply.fault = "no fault"
            /\ ~inFlight[i].reply.ok =>
                  FailedBefore(inFlight[i]) + 1 = DefaultMaxRetries + 1

\* The handler takes up the rejected write at position i.
HandlesRejection(i) ==
    /\ WriteSettled(i) /\ ~inFlight[i].reply.ok
    /\ inFlight' = RemoveAt(inFlight, i)

-----------------------------------------------------------------------------
(* Claims about overlapping cache writes *)

\* C15: whatever the order in which overlapping setItem and removeItem calls
\* complete, the key is absent or holds exactly the {timestamp, data} of the
\* write that completed last: one entry, never a mixture of two writes.
C15_CacheHoldsLastCompletedWrite ==
    /\ cacheEntry.kind = "none" => cacheStore = Absent
    /\ cacheEntry.kind = "entry" =>
          /\ cacheStore.present
          /\ JsonParse(cacheStore.text) =
                [ok |-> TRUE,
                 v |-> Obj([timestamp |-> Num(cacheEntry.ts),
                            data |-> cacheEntry.data])]

\* a write issued later has completed while an earlier one is still pending
C15_Witness ==
    /\ cacheEntry.kind = "entry"
    /\ \E i \in 1..Len(storageOps) :
          /\ storageOps[i].op = "setItem"
          /\ storageOps[i].ts < cacheEntry.ts
          /\ storageOps[i].data # cacheEntry.data

-----------------------------------------------------------------------------
(* Claims about the charts *)

\* the fields a mood chart plots: the one on the y axis last
TargetFields(chart) ==
    CASE chart = "prepareMoodData" -> <<"mood_score">>
      [] chart = "prepareSleepHoursData" -> <<"sleep_hours">>
      [] chart = "prepareSleepMoodData" -> <<"sleep_hours", "mood_score">>

\* the field holds a number: it is not undefined, null or NaN
IsNumber(log, field) == field \in DOMAIN log.o /\ log.o[field].t = "num"

Plottable(chart, log) ==
    \A i \in 1..Len(TargetFields(chart)) : IsNumber(log, TargetFields(chart)[i])

\* the numbers a point is to carry for a log
Expected(chart, log) ==
    IF chart = "prepareSleepMoodData"
      THEN [x |-> log.o["sleep_hours"], y |-> log.o["mood_score"]]
      ELSE [x |-> log.o["date"], y |-> log.o[TargetFields(chart)[1]]]

MoodChartDone == "logs" \in DOMAIN input /\ output # Null

\* C16: a log whose target field is undefined, null or NaN produces no
\* point, and every other log produces exactly one point, whose y (and x,
\* where x is a number) is the field's number.
C16_MoodChartsPlotOnlyNumbers ==
    MoodChartDone =>
        LET plottable == SelectSeq(input.logs,
                                   LAMBDA log : Plottable(input.chart, log))
            wanted == {Expected(input.chart, plottable[i]) : i \in 1..Len(plottable)}
        IN  /\ Len(output.a) = Len(plottable)
            /\ \A w \in wanted :
                  Cardinality({i \in 1..Len(output.a) :
                                  [x |-> output.a[i].x, y |-> output.a[i].y] = w})
                  = Cardinality({i \in 1..Len(plottable) :
                                  Expected(input.chart, plottable[i]) = w})

\* the numeric fields an analytics chart plots, by axis
ChartedFields(chart) ==
    CASE chart = "categoryData" -> [y |-> "points"]
      [] chart = "hoursByDayData" -> [y |-> "hours"]
      [] chart = "activityTrendData" -> [y |-> "activity_count"]
      [] chart = "moodTrendData" -> [y |-> "avg_mood"]
      [] chart = "moodDistributionData" -> [y |-> "count"]
      [] chart = "sleepMoodData" -> [x |-> "sleep_hours", y |-> "avg_mood"]
      [] chart = "entriesByDateData" -> [y |-> "entry_count"]
      [] chart = "tagFrequencyData" -> [y |-> "count"]
      [] chart = "journalMoodData" -> [y |-> "avg_mood"]

\* every charted field of the record holds a number
Charted(chart, item) ==
    \A axis \in DOMAIN ChartedFields(chart) :
        IsNumber(item, ChartedFields(chart)[axis])

\* the point carries the record's own numbers
PlotsItem(chart, point, item) ==
    \A axis \in DOMAIN ChartedFields(chart) :
        point[axis] = item.o[ChartedFields(chart)[axis]]

AnalyticsChartDone == "stats" \in DOMAIN input /\ output # Null

\* C17: a record of an aggregate list whose charted numeric field is missing,
\* null or NaN is left out of the chart's data: there are no more points than
\* records with numbers, and every point carries the numbers of such a record.
C17_AnalyticsChartsOmitNonNumbers ==
    AnalyticsChartDone =>
        LET list == Prop(input.stats, ChartSource(input.chart).key)
            items == IF list.t = "arr" THEN list.a ELSE <<>>
            charted == SelectSeq(items, LAMBDA item : Charted(input.chart, item))
        IN  /\ Len(output.a) <= Len(charted)
            /\ \A i \in 1..Len(output.a) :
                  \E j \in 1..Len(charted) :
                      PlotsItem(input.chart, output.a[i], charted[j])

-----------------------------------------------------------------------------
(* Claims about fetchWithTimeout *)

\* the fetch settled by itself, before any abort
SettledInTime == request \in {"fulfilled", "rejected"}

\* C18: once more than `timeout` has passed since the call, a fetch that did
\* not settle by itself has been aborted and the call has thrown the
\* timed-out error; a fetch that settled by itself has cleared the timer and
\* no abort is issued, then or later.
C18_TimeoutAbortsOrTimerCleared ==
    /\ (request # "none" /\ now > timeoutId.due /\ ~SettledInTime) =>
          /\ request = "aborted" /\ controller.aborted
          /\ output = ThrownError(TimedOutError(input.url, input.timeout))
    /\ request = "aborted" => now >= timeoutId.due
    /\ SettledInTime =>
          /\ timeoutId.state = "cleared" /\ ~controller.aborted
          /\ output.kind = "throw" => output.error.message # "timed out"

\* the fetch settled by itself and the timer's time has passed
C18_Witness == SettledInTime /\ now > timeoutId.due /\ output.kind = "return"

-----------------------------------------------------------------------------
(* Claims about the errors withRetry meets *)

\* the waits before invocations 2..n+1
BackoffsBefore(n) == [i \in 1..n |-> delay * Pow2(i - 1)]

\* C19: whatever errors fn throws, the invocations of fn and the waits
\* before them are the same: a call that gives up has invoked fn maxRetries
\* times, a call that resolves has invoked it once more than it failed, and
\* the waits are the backoffs in order; the validation error of
\* createActivity is retried like the errors of the network.
C19_AllErrorsRetriedAlike ==
    /\ Len(failAt) <= fnCalls
    /\ \A i \in 1..Len(failAt) :
          \/ i <= Len(waits) /\ waits[i] = delay * Pow2(i - 1)
          \/ i = maxRetries /\ Len(waits) = maxRetries - 1
    /\ (rpc = "rejected" /\ maxRetries >= 1) =>
          /\ fnCalls = maxRetries
          /\ waits = BackoffsBefore(maxRetries - 1)
          /\ outcome.value = ErrorOf(maxRetries)
    /\ rpc = "resolved" =>
          /\ fnCalls = failures + 1
          /\ waits = BackoffsBefore(failures)

\* the three default invocations have all met the validation error
C19_Witness ==
    /\ rpc = "rejected" /\ maxRetries = DefaultMaxRetries
    /\ fnCalls = DefaultMaxRetries
    /\ outcome.value.message = "Missing required fields"
    /\ waits = <<delay, 2 * delay>>

-----------------------------------------------------------------------------
(* Claims about the loading state of the screen *)

\* a loadActivities, add, update or delete call is suspended at its await
OperationPending ==
    \E i \in 1..Len(inFlight) :
        inFlight[i].op \in {"load", "add", "update", "delete"}

\* C20: isLoading is true at every moment at which a loadActivities, add,
\* update or delete operation started by the screen is still in flight.
C20_LoadingWhilePending == OperationPending => isLoading

\* what is outstanding can go on: a storage call can finish, a request can
\* settle, and a call whose request has settled has a branch that takes it
CanSettle ==
    \/ storageOps # <<>>
    \/ \E i \in 1..Len(inFlight) :
          \/ Awaiting(i, "load") \/ Awaiting(i, "add")
          \/ Awaiting(i, "delete") \/ Awaiting(i, "update")
          \/ Replied(i) /\ inFlight[i].op = "load"
          \/ \E op \in {"add", "delete", "update"} :
                Resolved(i, op) \/ Rejected(i, op)

\* C21: every loadActivities, add, update and delete operation ends, and
\* when the last operation in flight ends isLoading is false and stays false
\* until the next operation starts: the overlay is never left on. The screen
\* then shows the list (error = null) or the error.
C21_LoadingAlwaysEnds ==
    /\ [](Pending => CanSettle)
    /\ OperationPending ~> inFlight = <<>>
    /\ [][(inFlight # <<>> \/ ~isLoading) /\ inFlight' = <<>>
            => ~isLoading' /\ (error' = Null \/ error'.t = "str")]_vars

\* an add has failed for good and nothing is left in flight
C21_Witness ==
    inFlight = <<>> /\ ~isLoading /\ lastAlert = "Error" /\ writes = 1

-----------------------------------------------------------------------------
(* Claims about the cache and the writes *)

\* createActivity has resolved for the form's activity
CreateResolved ==
    \/ \E i \in 1..MaxInFlight : Resolved(i, "add")
    \/ writes = 1 /\ lastAlert \in {"Success", "Warning"} /\ Len(server) > 2

\* the list holds the activity of the form
HoldsCreated(list) ==
    \E k \in 1..Len(list) : Prop(list[k], "Activity") = Prop(NapForm, "Activity")

\* C22: once createActivity has resolved, fetchActivities(false) does not
\* return a cached list that the server sent before the activity was
\* created.
C22_CreateInvalidatesCache ==
    CreateResolved =>
        LET r == fetchActivities(FALSE, cacheStore, now, NoResponse)
        IN  r.from = "cache" => HoldsCreated(r.data.a)

\* C23: one submission creates at most one activity: while withRetry is
\* about to issue a POST /submit-activity for the submission, the server
\* has not accepted an earlier POST of it.
Posted(list) ==
    Cardinality({k \in 1..Len(list) :
                    \E i \in 1..Len(inFlight) :
                        /\ inFlight[i].op = "add"
                        /\ list[k] = inFlight[i].newActivity})
C23_OnePostAccepted ==
    \A i \in 1..Len(inFlight) : Awaiting(i, "add") => Posted(server) = 0

\* a loadActivities call that was started, and whose request the server
\* answered, before the form's activity was created is the only call left,
\* after the reload that followed the creation has completed
OlderLoadLeft ==
    /\ Len(inFlight) = 1 /\ Replied(1) /\ inFlight[1].op = "load"
    /\ "served" \in DOMAIN inFlight[1]
    /\ writes = 1 /\ lastAlert = "Success"

\* C24: the latest load wins: when a loadActivities call started before
\* another one completes after it, the activities state keeps the response
\* of the call started last.
C24_LatestLoadWins ==
    [][OlderLoadLeft /\ inFlight' = <<>> => activities' = activities]_vars

\* C25: fetchActivities writes the cache only when the server answered with
\* a non-empty JSON array: for an empty array, an object, a status outside
\* 2xx, a body that does not parse and a network failure no setItem is
\* issued and the entry stays as it was.
C25_CacheWriteFrame ==
    "class" \in DOMAIN input /\ input.class # "none"
        => /\ storageOps = <<>>
           /\ cacheStore = input.item /\ cacheEntry = input.entry
C25_Witness ==
    /\ "class" \in DOMAIN input /\ input.class = "empty"
    /\ input.forceRefresh /\ input.item.present
    /\ output # Null /\ output.from = "server" /\ cacheStore = input.item

\* the cache holds an entry that has not expired when the call is made
HoldsUnexpired ==
    /\ input.entry.kind = "entry"
    /\ now - input.entry.ts < CACHE_EXPIRY \div 2

\* C26: a cache hit ignores pagination: with forceRefresh false and an
\* unexpired entry in the cache, fetchActivities returns the stored list for
\* every limit and offset, and no request is made.
C26_CacheHitIgnoresPagination ==
    "limit" \in DOMAIN input /\ output # Null
    /\ ~input.forceRefresh /\ HoldsUnexpired
        => /\ output.value = input.entry.data
           /\ ~output.requested /\ storageOps = <<>>
C26_Witness ==
    /\ "limit" \in DOMAIN input /\ output # Null
    /\ ~input.forceRefresh /\ HoldsUnexpired
    /\ input.limit = 2 * itemsPerPage /\ input.offset = itemsPerPage
    /\ output.value = Arr(<<ReadRecord>>) /\ output.from = "cache"

\* withRetry has been called around fetchActivities
ReadsList == "nets" \in DOMAIN input

\* C27: there is no retry on the list read path: under every outcome of the
\* request, withRetry calls fetchActivities once, resolves with what it
\* returned, and never waits for a backoff.
C27_ListReadNeverRetried ==
    ReadsList
        => /\ fnCalls <= 1 /\ waits = <<>>
           /\ rpc \in {"idle", "awaitFn", "resolved"}
           /\ rpc = "resolved" => fnCalls = 1
C27_Witness ==
    /\ ReadsList /\ rpc = "resolved" /\ fnCalls = 1 /\ waits = <<>>
    /\ maxRetries = DefaultMaxRetries
    /\ \A i \in 1..Len(input.nets) : input.nets[i] = NoResponse

(* Claims about paging *)

\* no two entries of the list share an activity_id
DistinctIds(list) ==
    \A i, j \in 1..Len(list) :
        i # j => Prop(list[i], "activity_id") # Prop(list[j], "activity_id")

\* C28: pagination brings no duplicate ids: from a list with pairwise
\* distinct activity_id values, a page appended by loadMoreActivities and an
\* activity added by handleAddActivity leave the ids pairwise distinct.
C28_NoDuplicateIds ==
    [][DistinctIds(activities) => DistinctIds(activities')]_vars

\* the loadMoreActivities fetches in flight
FetchingMore == {i \in 1..Len(inFlight) : inFlight[i].op = "more"}

\* C29: a single load-more is in flight: at most one loadMoreActivities
\* fetch at any time, also when the end of the list is reached and the
\* button is pressed before the component has rendered again.
C29_SingleLoadMore == Cardinality(FetchingMore) <= 1

(* Claims about the shop *)

\* the purchase was made and the server's answer, received whole, reports
\* success and a remaining balance
ReportedBalance ==
    LET body == JsonParse(input.net.text).v
    IN  IF Prop(body, "remaining_points") # Undefined
          THEN Prop(body, "remaining_points")
          ELSE Prop(body, "points_remaining")
PurchaseSucceeded ==
    /\ "path" \in DOMAIN input /\ output # Null
    /\ input.totalPoints.n >= input.reward.points_cost
    /\ input.net \in { Response(TRUE, Stringify(b)) : b \in PurchaseBodies }
    /\ Truthy(Prop(JsonParse(input.net.text).v, "success"))
    /\ ReportedBalance # Undefined

\* C30: after a purchase the server reports as successful, the balance
\* shown is the remaining balance of the response, under whichever of the
\* two names the server sent it, on handlePurchase and on directPurchase.
C30_BalanceAfterPurchase ==
    PurchaseSucceeded => output.totalPoints = ReportedBalance

=============================================================================
